---------------------------- MODULE Spec2Model ----------------------------
(***************************************************************************)
(* Model of the tutorial notebooks of the repository.  A notebook is a    *)
(* straight-line program: the kernel executes its statements from top to  *)
(* bottom and stops at the first statement that raises.  nb names the     *)
(* notebook being run, pc is the index of the next statement in that      *)
(* notebook's statement table; raised is set by the statement that raised *)
(* (pc then stays at it) and pc = Len(Prog) + 1 when the run is complete. *)
(*                                                                         *)
(* Calls into the modelling library act on the state the notebook can     *)
(* observe afterwards (fixed flags, active flags, values, results).       *)
(* Whatever an external solver computes is a nondeterministic choice.     *)
(*                                                                         *)
(* Units: pressures in mPa (1e-3 Pa), work in mW, efficiency in percent,   *)
(* mole fractions in 1e-8.                                                 *)
(***************************************************************************)
EXTENDS Integers, Sequences, FiniteSets, TLC

VARIABLES nb, pc, raised, pump, atr, chem, pid, txy

vars == <<nb, pc, raised, pump, atr, chem, pid, txy>>

\* A notebook name that has no value yet (NameError when read).
Undef == <<>>

Range(f) == {f[i] : i \in DOMAIN f}

Abs(x) == IF x < 0 THEN 0 - x ELSE x

\* pytest.approx(expected, abs=tol): |x - expected| <= tol
ApproxAbs(x, expected, tol) == Abs(x - expected) <= tol

(***************************************************************************)
(* Bounds of the model.                                                    *)
(***************************************************************************)
\* Largest residual (mPa, mW) a converged solve leaves on a solved variable.
MaxResidual == 1

(***************************************************************************)
(* ------------------------- Pump notebook ------------------------------ *)
(***************************************************************************)
PumpBlocks == {"pump_case_1", "pump_case_2"}

\* Variables of one Pump block (steady state, one time point, one phase).
PumpVars ==
    {"inlet.flow_mol", "inlet.enth_mol", "inlet.pressure",
     "outlet.flow_mol", "outlet.enth_mol", "outlet.pressure",
     "deltaP", "work_mechanical", "work_fluid", "efficiency_pump", "ratioP"}

\* Equality constraints of one Pump block and the variables each contains.
PumpCons ==
    [material_balances      |-> {"inlet.flow_mol", "outlet.flow_mol"},
     enthalpy_balances      |-> {"inlet.flow_mol", "inlet.enth_mol",
                                 "outlet.flow_mol", "outlet.enth_mol",
                                 "work_mechanical"},
     pressure_balance       |-> {"inlet.pressure", "deltaP", "outlet.pressure"},
     ratioP_calculation     |-> {"ratioP", "inlet.pressure", "outlet.pressure"},
     fluid_work_calculation |-> {"work_fluid", "deltaP", "inlet.flow_mol",
                                 "inlet.enth_mol", "inlet.pressure"},
     actual_work            |-> {"work_fluid", "work_mechanical",
                                 "efficiency_pump"}]

\* Values the notebook fixes (pump_test.ipynb, Problem Statement).
FlowMol == 100
InletPressure == 101325000
DeltaPCase1 == 100000000
OutletPressureCase2 == 201325000
EfficiencyPump == 80
\* value(iapws95.htpx(T=298.15 K, P=101325 Pa)): a property call, kept symbolic
EnthInlet == <<"htpx", "298.15 K", "101325 Pa">>

\* Reference values and tolerance of the result checks.
ExpectedOutletPressure == 201325000
ExpectedDeltaP == 100000000
ExpectedWork == 225850
CheckTol == 10
ExpectedDOFInitial == 5
ExpectedDOFFinal == 0

\* Molar volume (1e-10 m3/mol) the property package may return for the inlet
\* state; the same state gives the same volume in both cases.
VmolValues == {180670, 180686, 180690}

\* A statement of a notebook: operation, block, variable, value, source line.
St(op, blk, var, val, line) ==
    [op |-> op, cond |-> "always", blk |-> blk, var |-> var, val |-> val,
     line |-> line]

\* A statement inside the body of  if <cond>:
StIf(cond, op, blk, var, val, line) ==
    [op |-> op, cond |-> cond, blk |-> blk, var |-> var, val |-> val,
     line |-> line]

\* Statement table of the pump notebook.
PumpProg ==
    << St("import", "", {"ConcreteModel", "SolverFactory", "value", "units"},
          0, 87),
       St("import", "", {"FlowsheetBlock"}, 0, 90),
       St("import", "", {"idaeslog"}, 0, 93),
       St("setup", "m", "", 0, 96),
       St("import", "", {"iapws95"}, 0, 104),
       St("import", "", {"PhaseType"}, 0, 105),
       St("properties", "m", "", 0, 108),
       St("import", "", {"Pump"}, 0, 132),
       St("add", "pump_case_1", "", 0, 136),
       St("import", "", {"degrees_of_freedom"}, 0, 147),
       St("dof", "m", "DOF_initial", 0, 150),
       St("assert_dof", "", "DOF_initial", ExpectedDOFInitial, 164),
       St("fix", "pump_case_1", "inlet.flow_mol", FlowMol, 181),
       St("fix", "pump_case_1", "inlet.enth_mol", EnthInlet, 184),
       St("fix", "pump_case_1", "inlet.pressure", InletPressure, 187),
       St("fix", "pump_case_1", "deltaP", DeltaPCase1, 204),
       St("fix", "pump_case_1", "efficiency_pump", EfficiencyPump, 205),
       St("dof", "m", "DOF_final", 0, 208),
       St("assert_dof", "", "DOF_final", ExpectedDOFFinal, 222),
       St("initialize", "pump_case_1", "", 0, 239),
       St("solver_factory", "", "opt", 0, 257),
       St("solve", "m", "", 0, 258),
       St("import", "", {"TerminationCondition", "SolverStatus"}, 0, 278),
       St("assert_status", "", "", 0, 281),
       St("report", "pump_case_1", "", 0, 299),
       St("import", "", {"pytest"}, 0, 312),
       St("check", "pump_case_1", "outlet.pressure", ExpectedOutletPressure, 315),
       St("check", "pump_case_1", "work_mechanical", ExpectedWork, 316),
       St("add", "pump_case_2", "", 0, 341),
       St("dof", "pump_case_2", "DOF_initial", 0, 344),
       St("assert_dof", "", "DOF_initial", ExpectedDOFInitial, 358),
       St("fix", "pump_case_2", "inlet.flow_mol", FlowMol, 375),
       St("fix", "pump_case_2", "inlet.enth_mol", EnthInlet, 378),
       St("fix", "pump_case_2", "inlet.pressure", InletPressure, 381),
       St("fix", "pump_case_2", "outlet.pressure", OutletPressureCase2, 398),
       St("fix", "pump_case_2", "efficiency_pump", EfficiencyPump, 401),
       St("dof", "pump_case_2", "DOF_final", 0, 410),
       St("assert_dof", "", "DOF_final", ExpectedDOFFinal, 424),
       St("initialize", "pump_case_2", "", 0, 441),
       St("solver_factory", "", "opt", 0, 459),
       St("solve", "pump_case_2", "", 0, 460),
       St("import", "", {"TerminationCondition", "SolverStatus"}, 0, 473),
       St("assert_status", "", "", 0, 476),
       St("report", "pump_case_2", "", 0, 494),
       St("check", "pump_case_2", "deltaP", ExpectedDeltaP, 508),
       St("check", "pump_case_2", "work_mechanical", ExpectedWork, 509) >>

\* The pump notebook as it stands and with the cells tagged "testing" removed.
PumpNotebooks == {"pump", "pump_doc"}

\* TestingLines with the cell that imports degrees_of_freedom tagged as well.
TestingLinesWithImportCell ==
    {147, 150, 164, 222, 278, 281, 312, 315, 316, 358, 424, 473, 476, 508, 509}

\* Lines of the statements that stand in cells tagged "testing".
TestingLines ==
    {164, 222, 278, 281, 312, 315, 316, 358, 424, 473, 476, 508, 509}

NotTesting(st) == st.line \notin TestingLines

\* The statements left when the cells tagged "testing" are removed.
PumpDocProg == SelectSeq(PumpProg, NotTesting)

\* The names a statement binds.
Defines(st) ==
    CASE st.op = "import" -> st.var
      [] st.op = "setup" -> {"m"}
      [] st.op = "dof" -> {st.var}
      [] st.op = "solver_factory" -> {st.var}
      [] st.op = "solve" -> {"solve_status"}
      [] OTHER -> {}

\* The names a statement reads (builtins such as print left out).
Uses(st) ==
    CASE st.op = "import" -> {}
      [] st.op = "setup" -> {"ConcreteModel", "FlowsheetBlock"}
      [] st.op = "properties" -> {"m", "iapws95", "PhaseType"}
      [] st.op = "add" -> {"m", "Pump"}
      [] st.op = "dof" -> {"m", "degrees_of_freedom"}
      [] st.op = "assert_dof" -> {st.var}
      [] st.op = "fix" ->
            IF st.var = "inlet.enth_mol"
            THEN {"m", "value", "iapws95", "units"} ELSE {"m"}
      [] st.op = "initialize" -> {"m", "idaeslog"}
      [] st.op = "solver_factory" -> {"SolverFactory"}
      [] st.op = "solve" -> {"m", "opt"}
      [] st.op = "assert_status" ->
            {"solve_status", "TerminationCondition", "SolverStatus"}
      [] st.op = "report" -> {"m"}
      [] st.op = "check" -> {"m", "pytest"}
      [] OTHER -> {}


(***************************************************************************)
(* ------------- Autothermal reformer notebooks (PySMO, ALAMO) ----------- *)
(***************************************************************************)
\* Rows of reformer-data.csv and rows drawn by csv_data.sample(n=100).
NCsv == 2800
NSample == 100
\* split_training_validation(data, 0.8, ...): the training fraction in tenths.
TrainingTenths == 8

\* First row of the sample and rotation applied by the shuffle range over
\* 0..MaxOffset and 0..MaxShift.
MaxOffset == 1
MaxShift == 1

\* Input values (1e-2) the notebooks initialise and fix.
InputInitial == 80
BypassFracFixed == 50
NgSteamRatioFixed == 100

\* Mole fractions in 1e-8.  m.fs.con: N2 <= 0.34; the asserts: H2 within 0.01
\* of 0.33 and N2 <= 0.4 + 1e-8.
N2Limit == 34000000
H2Target == 33000000
H2Tol == 1000000
N2CheckLimit == 40000001
\* what a converged solve may leave above an inequality's bound
ConstraintTol == 1

\* Mole fractions a solve may return.
H2Values == {31999999, 32000000, 34000000, 34000001}
N2Values == {30000000, 34000000, 34000001, 37000000, 40000001, 40000002}

\* celloutput[:50] and celloutput[-50:]: lines shown from either end.
DisplayLines == 50

\* Number of lines the training run may write to sys.stdout.
CapturedLineCounts == {60, 120}

\* Lines of text.  Library output is told apart by its number, the
\* notebook's own messages by their text.
OutputLine(who, i) == [text |-> who, n |-> i]
Message(t) == [text |-> t, n |-> 0]
AlamoNotFoundMessage ==
    Message("ALAMO not found. You must install ALAMO to use this notebook")
Separator == Message(".")
\* the piece after the last newline of the captured text
EmptyPiece == Message("")

\* Columns of reformer-data.csv: two inputs, then the thirteen outputs.
CsvColumns ==
    << "Bypass_Fraction", "NG_Steam_Ratio", "Steam_Flow", "Reformer_Duty",
       "AR", "C2H6", "C3H8", "C4H10", "CH4", "CO", "CO2", "H2", "H2O", "N2",
       "O2" >>
\* input_data = data.iloc[:, :2]; output_data = data.iloc[:, 2:]; the labels
\* are their columns
input_labels == SubSeq(CsvColumns, 1, 2)
output_labels == SubSeq(CsvColumns, 3, Len(CsvColumns))

\* xmin, xmax = [0.1, 0.8], [0.8, 1.2] (1e-2);
\* input_bounds = {input_labels[i]: (xmin[i], xmax[i]) ...}
xmin == <<10, 80>>
xmax == <<80, 120>>
input_bounds ==
    [l \in Range(input_labels) |->
        LET i == CHOOSE j \in DOMAIN input_labels : input_labels[j] = l
        IN  <<xmin[i], xmax[i]>>]

\* Bounds the ALAMO trainer, which is not given any, may put on the surrogate
\* it returns: those of the training rows it saw, or by coincidence the
\* notebook's.
TrainerInputBounds ==
    { input_bounds,
      [l \in Range(input_labels) |->
          IF l = input_labels[1] THEN <<11, 79>> ELSE <<81, 119>>] }

\* Text of the exceptions train_surrogate may raise, in fragments.
TrainErrors ==
    { [type |-> "FileNotFoundError",
       text |-> <<"Could not find ALAMO", " executable">>],
      [type |-> "FileNotFoundError",
       text |-> <<"No such file: ", "alamo_run.alm">>],
      [type |-> "RuntimeError", text |-> <<"training failed">>] }

\* "<phrase>" in str(err)
InText(phrase, err) == \E i \in DOMAIN err.text : err.text[i] = phrase

\* A surrogate object: labels, input bounds and the trained expressions.
Surrogate(il, ol, ib, ex) ==
    [input_labels |-> il, output_labels |-> ol, input_bounds |-> ib,
     surrogate |-> ex]

\* m.fs.steam_flowrate ... m.fs.O2 in the order of the list `outputs`.
outputs ==
    << "steam_flowrate", "reformer_duty", "AR", "C2H6", "C4H10", "C3H8",
       "CH4", "CO", "CO2", "H2", "H2O", "N2", "O2" >>
inputs == <<"bypass_frac", "ng_steam_ratio">>

\* Both input Vars with the bounds of the first.
InputVarBoundsSame ==
    [bypass_frac |-> <<10, 80>>, ng_steam_ratio |-> <<10, 80>>]

\* Var(initialize=0.80, bounds=[0.1, 0.8]) and Var(initialize=0.80,
\* bounds=[0.8, 1.2]) (1e-2)
InputVarBounds ==
    [bypass_frac |-> <<10, 80>>, ng_steam_ratio |-> <<80, 120>>]

\* The output Vars in the order of their declarations, m.fs.steam_flowrate =
\* Var(...) to m.fs.O2 = Var(...).
DeclaredOutputs ==
    << "steam_flowrate", "reformer_duty", "AR", "C2H6", "C3H8", "C4H10",
       "CH4", "CO", "CO2", "H2", "H2O", "N2", "O2" >>

\* The output Vars in the order of the print statements of the results.
PrintedOutputs ==
    << "steam_flowrate", "reformer_duty", "AR", "C2H6", "C3H8", "C4H10",
       "CH4", "CO", "CO2", "H2", "H2O", "N2", "O2" >>

\* The flowsheet variable that stands for the quantity of a data column.
VarOfLabel(l) ==
    CASE l = "Steam_Flow" -> "steam_flowrate"
      [] l = "Reformer_Duty" -> "reformer_duty"
      [] OTHER -> l

\* Statement table of the PySMO notebook.
PysmoProg ==
    << St("sample", "", "data", NSample, 569),
       St("n_data", "", "n_data", 0, 578),
       St("split", "", "", TrainingTenths, 579),
       St("redirect", "", "stream", 0, 614),
       St("train", "", "poly_train", 0, 630),
       St("surrogate_object", "", "poly_surr", 0, 635),
       St("save", "", "poly_surr", 0, 638),
       St("restore", "", "oldstdout", 0, 641),
       St("display", "", "celloutput", DisplayLines, 644),
       St("plot", "", "poly_surr", 0, 677),
       St("plot", "", "poly_surr", 0, 698),
       St("build", "", "m", 0, 733),
       St("redirect", "", "stream", 0, 783),
       St("load", "", "surrogate", 0, 785),
       St("build_model", "", "surrogate", 0, 787),
       St("restore", "", "oldstdout", 0, 790),
       St("fix_input", "", "bypass_frac", BypassFracFixed, 793),
       St("fix_input", "", "ng_steam_ratio", NgSteamRatioFixed, 794),
       St("solve_stats", "", "status_obj", 0, 797),
       St("print", "", "status_obj", 0, 813),
       St("unfix_input", "", "bypass_frac", 0, 853),
       St("unfix_input", "", "ng_steam_ratio", 0, 854),
       St("objective", "", "obj", 0, 855),
       St("constraint", "", "con", N2Limit, 856),
       St("solve_opt", "", "status", 0, 860),
       St("assert_H2", "", "H2", H2Target, 864),
       St("assert_N2", "", "N2", N2CheckLimit, 865),
       St("print", "", "status", 0, 866) >>

\* Statement table of the ALAMO notebook.
AlamoProg ==
    << St("sample", "", "data", NSample, 1058),
       St("n_data", "", "n_data", 0, 1067),
       St("split", "", "", TrainingTenths, 1068),
       St("redirect", "", "stream", 0, 1103),
       St("train", "", "alm_surr", 0, 1125),
       StIf("has_alamo", "save", "", "alm_surr", 0, 1135),
       StIf("has_alamo", "surrogate_object", "", "alm_surr", 0, 1147),
       StIf("has_alamo", "restore", "", "oldstdout", 0, 1152),
       StIf("has_alamo", "display", "", "celloutput", DisplayLines, 1155),
       StIf("has_alamo", "plot", "", "alm_surr", 0, 1189),
       StIf("has_alamo", "plot", "", "alm_surr", 0, 1211),
       StIf("has_alamo", "build", "", "m", 0, 1245),
       StIf("has_alamo", "load", "", "surrogate", 0, 1291),
       StIf("has_alamo", "build_model", "", "surrogate", 0, 1293),
       StIf("has_alamo", "fix_input", "", "bypass_frac", BypassFracFixed, 1296),
       StIf("has_alamo", "fix_input", "", "ng_steam_ratio", NgSteamRatioFixed, 1297),
       StIf("has_alamo", "solve_stats", "", "status_obj", 0, 1300),
       StIf("not has_alamo", "status_none", "", "status_obj", 0, 1302),
       StIf("status_obj", "print", "", "status_obj", 0, 1319),
       StIf("has_alamo", "unfix_input", "", "bypass_frac", 0, 1360),
       StIf("has_alamo", "unfix_input", "", "ng_steam_ratio", 0, 1361),
       StIf("has_alamo", "objective", "", "obj", 0, 1362),
       StIf("has_alamo", "constraint", "", "con", N2Limit, 1363),
       StIf("has_alamo", "solve_opt", "", "status", 0, 1367),
       StIf("has_alamo", "assert_H2", "", "H2", H2Target, 1371),
       StIf("has_alamo", "assert_N2", "", "N2", N2CheckLimit, 1372),
       StIf("has_alamo", "print", "", "status", 0, 1373) >>

\* An integer interval as the sequence of its members.
Interval(a, n) == [i \in 1..n |-> a + i - 1]

\* DataFrame.sample(frac=1, random_state=seed): the rows in a shuffled order.
\* The order is the generator's; here one of the rotations of the rows.
Shuffle(rows, r) ==
    [i \in 1..Len(rows) |-> rows[((i - 1 + r) % Len(rows)) + 1]]

\* split_training_validation that starts the second part on the last row of
\* the first.
split_training_validation_overlap(rows, tenths, r) ==
    LET sh  == Shuffle(rows, r)
        cut == (Len(rows) * tenths) \div 10
    IN  <<SubSeq(sh, 1, cut), SubSeq(sh, cut, Len(rows))>>

\* split_training_validation(dataframe, training_fraction, seed): shuffle, then
\* cut at int(n * fraction); the first part trains, the rest validates.
split_training_validation(rows, tenths, r) ==
    LET sh  == Shuffle(rows, r)
        cut == (Len(rows) * tenths) \div 10
    IN  <<SubSeq(sh, 1, cut), SubSeq(sh, cut + 1, Len(rows))>>

AtrInit ==
    [data |-> << >>,
     n_data |-> Undef,
     seed |-> Undef,
     data_training |-> << >>,
     data_validation |-> << >>,
     has_alamo |-> Undef,
     err |-> Undef,
     stdout |-> "original",
     oldstdout |-> Undef,
     stream |-> << >>,
     console |-> << >>,
     celloutput |-> << >>,
     surr |-> Undef,
     file |-> Undef,
     plotted |-> << >>,
     surrogate |-> Undef,
     neqs |-> 0,
     bound |-> << >>,
     bounds |-> [bypass_frac |-> <<0, 0>>, ng_steam_ratio |-> <<0, 0>>],
     solve_log |-> << >>,
     trained |-> FALSE,
     built |-> FALSE,
     fixed |-> {},
     val |-> [bypass_frac |-> 0, ng_steam_ratio |-> 0, H2 |-> 0, N2 |-> 0],
     obj |-> FALSE,
     con |-> FALSE,
     status_obj |-> Undef,
     status |-> Undef,
     solves |-> 0]

(***************************************************************************)
(* ------------------- Chemical Akzo Nobel notebook ---------------------- *)
(***************************************************************************)
\* The known solution y1..y6 at t = 180, each taken as 1e6 units of itself,
\* so that a computed value v has relative error |RefValue - v| / RefValue.
RefValue == 1000000
\* assert abs(y - value) / y < 1e-3: the tolerance as 1 / RelTolInv
RelTolInv == 1000
Species == 1..6

\* Values (in the units of RefValue) the integration may return at t = 180.
SolvedValuesAt180 == {999000, 999001, 1000000, 1001000}

\* ts_options of the solve: "--ts_dt": 0.01 is kept as text.
ChemTsOptions ==
    ("--ts_type" :> "cn") @@ ("--ts_adapt_type" :> "basic")
        @@ ("--ts_dt" :> "0.01") @@ ("--ts_save_trajectory" :> 1)

\* The solve saves its trajectory when the option is given as 1.
SavesTrajectory(opts) ==
    /\ "--ts_save_trajectory" \in DOMAIN opts
    /\ opts["--ts_save_trajectory"] = 1

\* Statement table of the chemical Akzo Nobel notebook.
ChemProg ==
    << St("dae", "", 0, 10, 97),
       St("petsc_chem", "", 0, ChemTsOptions, 155),
       St("assert_rel", "", 1, RelTolInv, 177),
       St("assert_rel", "", 2, RelTolInv, 178),
       St("assert_rel", "", 3, RelTolInv, 179),
       St("assert_rel", "", 4, RelTolInv, 180),
       St("assert_rel", "", 5, RelTolInv, 181),
       St("assert_rel", "", 6, RelTolInv, 182),
       St("plot_model", "", "m", 0, 200),
       St("plot_trajectory", "", "tj", 0, 226),
       St("interpolate", "", "tji", 181, 281),
       St("plot_trajectory", "", "tji", 0, 293),
       St("plot_trajectory", "", "tji", 0, 310),
       St("plot_trajectory", "", "tj", 0, 311) >>

\* Time in 1/100 min ("--ts_dt": 0.01); the model runs to t = 180 min.
TimeScale == 100
TimeEnd == 180
\* The species whose course in time is followed (m.y[t, 2]).
TrackedSpecies == 2
\* Its value at t = 0, the initial condition set by dae(); the figure stands
\* for whatever the library sets, in the units of RefValue.
InitialValue == 1070000

\* m.t after discretisation in nfe finite elements: nfe + 1 points.
m_t(nfe) == [i \in 1..(nfe + 1) |-> ((i - 1) * TimeEnd * TimeScale) \div nfe]

\* linspace without its end point: n steps of (b - a) / n.
linspace_no_endpoint(a, b, n) == [i \in 1..n |-> a + ((i - 1) * (b - a)) \div n]

\* np.linspace(a, b, n): n points from a to b, both included.
linspace(a, b, n) == [i \in 1..n |-> a + ((i - 1) * (b - a)) \div (n - 1)]

\* Time steps and values of the tracked species the integrator may save from
\* 0 to 180 min (the last value is the one loaded into the model at 180).
TrajectoryShapes ==
    { [time |-> <<0, 1, 37, 250, 4100, 18000>>,
       vec |-> <<InitialValue, 1069700, 1061000, 1040000, 1010000, 0>>],
      [time |-> <<0, 1, 150, 9000, 18000>>,
       vec |-> <<InitialValue, 1070200, 1050000, 1005000, 0>>] }

\* The value on the straight line from (t0, v0) to (t1, v1) at t, rounded
\* down to the unit.
OnLine(t0, v0, t1, v1, t) ==
    LET dt == t1 - t0
        q == (v1 - v0) \div dt
        r == (v1 - v0) % dt
    IN  v0 + q * (t - t0) + (r * (t - t0)) \div dt

\* numpy.interp(t, tj.time, tj.vec): linear between the two neighbouring
\* points of the trajectory, the end values outside it.
interp(tj, t) ==
    LET n == Len(tj.time)
    IN  IF t <= tj.time[1] THEN tj.vec[1]
        ELSE IF t >= tj.time[n] THEN tj.vec[n]
        ELSE LET j == CHOOSE k \in 1..(n - 1) :
                          tj.time[k] <= t /\ t < tj.time[k + 1]
             IN  OnLine(tj.time[j], tj.vec[j], tj.time[j + 1], tj.vec[j + 1], t)

\* tj.interpolate(times): a new trajectory at the given times.
interpolate(tj, times) ==
    [time |-> times, vec |-> [i \in DOMAIN times |-> interp(tj, times[i])]]

ChemInit ==
    [created |-> FALSE,
     nfe |-> 0,
     t |-> << >>,
     filled |-> {},
     yt |-> << >>,
     between |-> << >>,
     elements |-> 0,
     tj |-> Undef,
     ts_options |-> << >>,
     tji |-> Undef,
     plotted |-> << >>,
     y180 |-> [i \in Species |-> 0],
     integrated |-> FALSE]

(***************************************************************************)
(* ----------------------- PID / steam tank notebook --------------------- *)
(***************************************************************************)
\* Inlet pressures of valve_1 in Pa.
PressureLow == 500000
PressureHigh == 600000

\* Time on the integrator's grid: "--ts_dt": 0.1, ten ticks to the second.
TicksPerSecond == 10
\* 50000 * (time_var - 10) + 500000: start of the ramp (s) and slope (Pa/s).
RampStart == 10
RampSlope == 50000

Min(a, b) == IF a <= b THEN a ELSE b
Max(a, b) == IF a >= b THEN a ELSE b

\* smooth_min / smooth_max (eps = 1e-4) differ from min / max by at most
\* 5e-5 Pa; to the Pa, the unit here, they are min and max.
smooth_min(a, b) == Min(a, b)
smooth_max(a, b) == Max(a, b)

\* linear_pressure with the ramp starting at 12 s.
linear_pressure_late(k) ==
    (RampSlope * (k - 12 * TicksPerSecond)) \div TicksPerSecond + PressureLow

\* 50000 * (b.time_var[t] - 10) + 500000 at tick k
linear_pressure(k) ==
    (RampSlope * (k - RampStart * TicksPerSecond)) \div TicksPerSecond
        + PressureLow

\* Right-hand side of inlet_pressure_eqn with min and max exchanged.
smooth_ramp_pressure_swapped(k) ==
    smooth_max(PressureHigh, smooth_min(PressureLow, linear_pressure(k)))

\* Right-hand side of inlet_pressure_eqn of the single-element ramp model:
\* smooth_min(600000, smooth_max(500000, 50000 * (time_var - 10) + 500000))
smooth_ramp_pressure(k) ==
    smooth_min(PressureHigh, smooth_max(PressureLow, linear_pressure(k)))

\* ts_options of the three solves: "--ts_dt": 0.1 is kept as text.
PidTsOptions ==
    ("--ts_type" :> "beuler") @@ ("--ts_dt" :> "0.1") @@ ("--ts_monitor" :> "")
        @@ ("--ts_save_trajectory" :> 1)

\* Statement table of the PID notebook: blk holds the time set, the kind of
\* constraint or the plotted variable, var the time index, val the value.
PidProg ==
    << St("create_model", <<0, 12>>, 0, 1, 107),
       St("petsc_pid", "", 0, PidTsOptions, 127),
       St("plot_tj", "valve_opening", 12, 0, 156),
       St("plot_tj", "tank.pressure", 12, 0, 167),
       St("create_model", <<0, 24>>, 0, 1, 189),
       St("time_var", "", 0, 0, 195),
       St("unfix_pressure", "", 0, 0, 199),
       St("unfix_pressure", "", 24, 0, 200),
       St("fix_time_var", "", 0, 0, 205),
       St("pressure_eqn", "smooth ramp", 0, 0, 210),
       St("petsc_pid", "time_var", 0, PidTsOptions, 224),
       St("plot_tj", "inlet.pressure", 24, 0, 246),
       St("plot_tj", "valve_opening", 24, 0, 258),
       St("plot_tj", "tank.pressure", 24, 0, 269),
       St("create_model", <<0, 10, 12, 24>>, 0, 3, 291),
       St("time_var", "", 0, 0, 297),
       St("fix_pressure", "", 0, PressureLow, 304),
       St("fix_pressure", "", 10, PressureLow, 305),
       St("set_pressure", "", 12, PressureHigh, 306),
       St("unfix_pressure", "", 12, 0, 307),
       St("fix_pressure", "", 24, PressureHigh, 308),
       St("pressure_eqn", "linear", 0, 0, 311),
       St("deactivate_eqn", "", 0, 0, 319),
       St("activate_eqn", "", 12, 0, 320),
       St("petsc_pid", "time_var", 0, PidTsOptions, 330),
       St("plot_tj", "inlet.pressure", 24, 0, 352),
       St("plot_tj", "valve_opening", 24, 0, 364),
       St("plot_tj", "tank.pressure", 24, 0, 375) >>

PidInit ==
    [scenario |-> 0,
     time_set |-> << >>,
     nfe |-> 0,
     p_fixed |-> {},
     p_val |-> << >>,
     time_var |-> FALSE,
     tv_fixed |-> {},
     tv_val |-> << >>,
     eqn |-> "none",
     eqn_active |-> {},
     traj |-> << >>,
     tj |-> Undef,
     plots |-> << >>,
     solves |-> 0]

(***************************************************************************)
(* ---------------------------- Txy notebook ----------------------------- *)
(***************************************************************************)
\* Temperatures in 1e-2 K (150.15 K is 15015), pressures in Pa, flows in mol/s.
KelvinScale == 100

\* The configuration with the lower temperature bound at 273.15 K.
ConfigurationWarmBound ==
    [components |->
        [benzene |-> [phase_equilibrium_form |-> {<<"Vap", "Liq">>}],
         toluene |-> [phase_equilibrium_form |-> {<<"Vap", "Liq">>}]],
     phases |-> {"Liq", "Vap"},
     state_bounds |->
        [flow_mol |-> <<0, 100, 1000>>,
         temperature |-> <<27315, 300 * KelvinScale, 450 * KelvinScale>>,
         pressure |-> <<50000, 100000, 1000000>>],
     pressure_ref |-> 100000,
     temperature_ref |-> 300 * KelvinScale,
     phases_in_equilibrium |-> << <<"Vap", "Liq">> >>,
     phase_equilibrium_state |-> {<<"Vap", "Liq">>}]

\* configuration = {...}: the entries that hold bounds, reference values and
\* phases; the phase_equilibrium dictionaries by their keys.
Configuration ==
    [components |->
        [benzene |-> [phase_equilibrium_form |-> {<<"Vap", "Liq">>}],
         toluene |-> [phase_equilibrium_form |-> {<<"Vap", "Liq">>}]],
     phases |-> {"Liq", "Vap"},
     state_bounds |->
        [flow_mol |-> <<0, 100, 1000>>,
         temperature |->
            <<150 * KelvinScale, 300 * KelvinScale, 450 * KelvinScale>>,
         pressure |-> <<50000, 100000, 1000000>>],
     pressure_ref |-> 100000,
     temperature_ref |-> 300 * KelvinScale,
     phases_in_equilibrium |-> << <<"Vap", "Liq">> >>,
     phase_equilibrium_state |-> {<<"Vap", "Liq">>}]

\* Txy_diagram(model, "benzene", "toluene", 101325, num_points=25,
\* temperature=150.15, ...)
TxyArguments ==
    [component_1 |-> "benzene", component_2 |-> "toluene",
     pressure |-> 101325, num_points |-> 25, temperature |-> 15015]

\* Statement table of the Txy notebook.
TxyProg ==
    << St("configuration", "", "configuration", Configuration, 667),
       St("model", "", "model", 0, 801),
       St("params", "", "model.params", 0, 804),
       St("txy_diagram", "", "", TxyArguments, 845) >>

TxyInit ==
    [configuration |-> Undef,
     model |-> FALSE,
     params |-> Undef,
     diagram |-> Undef,
     drawn |-> 0]

\* Variables whose values the notebook reads or the solve determines.
TrackedVars ==
    {"inlet.flow_mol", "inlet.enth_mol", "inlet.pressure", "outlet.flow_mol",
     "outlet.pressure", "deltaP", "efficiency_pump", "work_mechanical",
     "work_fluid"}

\* The statement table of the notebook being run.
Prog ==
    CASE nb = "pump" -> PumpProg
      [] nb = "pump_doc" -> PumpDocProg
      [] nb = "pysmo" -> PysmoProg
      [] nb = "alamo" -> AlamoProg
      [] nb = "chem" -> ChemProg
      [] nb = "pid" -> PidProg
      [] nb = "txy" -> TxyProg

Running == ~raised /\ pc \in 1..Len(Prog)
Finished == ~raised /\ pc = Len(Prog) + 1
Cur == Prog[pc]

\* status_obj = None, in the shape of a solver status.
NoneStatus == [status |-> "None", termination_condition |-> "None"]

\* The condition of the if-block the current statement stands in.
CondHolds ==
    CASE Cur.cond = "always" -> TRUE
      [] Cur.cond = "has_alamo" -> atr.has_alamo = <<TRUE>>
      [] Cur.cond = "not has_alamo" -> atr.has_alamo # <<TRUE>>
      [] Cur.cond = "status_obj" -> atr.status_obj # Undef /\ atr.status_obj # <<NoneStatus>>

\* The name the condition reads is bound.
CondDefined ==
    CASE Cur.cond = "always" -> TRUE
      [] Cur.cond \in {"has_alamo", "not has_alamo"} -> atr.has_alamo # Undef
      [] Cur.cond = "status_obj" -> atr.status_obj # Undef

\* Every name the current statement reads is bound (the names are followed
\* in the pump notebook).
NamesBound == nb \in PumpNotebooks => Uses(Cur) \subseteq pump.names

Reformer == nb \in {"pysmo", "alamo"}
Exec(op) == Running /\ Cur.op = op /\ CondDefined /\ CondHolds /\ NamesBound

\* The statement finishes normally / raises (the run stops there).
Advance == pc' = pc + 1 /\ raised' = raised
Raise == pc' = pc /\ raised' = TRUE

\* The blocks a model statistics or solve call covers: the whole model m, or
\* one unit block.
Scope(blk) == IF blk = "m" THEN pump.attached ELSE {blk} \cap pump.attached

\* Unfixed variables of block b that occur in an active equality constraint.
UnfixedVarsInCons(b) ==
    {v \in PumpVars :
        /\ v \notin pump.fixed[b]
        /\ \E c \in DOMAIN PumpCons : v \in PumpCons[c]}

\* degrees_of_freedom(block): unfixed variables in active equalities minus
\* active equalities, over the blocks of the scope.
RECURSIVE SumDOF(_)
SumDOF(S) ==
    IF S = {} THEN 0
    ELSE LET b == CHOOSE x \in S : TRUE
         IN  Cardinality(UnfixedVarsInCons(b)) - Cardinality(DOMAIN PumpCons)
             + SumDOF(S \ {b})

degrees_of_freedom(blk) == SumDOF(Scope(blk))

\* x / d rounded to the nearest integer (x >= 0, d > 0).
RoundDiv(x, d) == (x + d \div 2) \div d

\* fluid work = deltaP * flow_vol, flow_vol = flow_mol * molar volume;
\* work_mechanical * efficiency = fluid work.  deltaP in mPa (one mPa changes
\* the work by 2e-6 W, so deltaP enters rounded to the Pa), result in mW.
WorkFluid(dP, flow, vmol) ==
    RoundDiv(RoundDiv(RoundDiv(dP, 1000) * flow, 1000) * vmol, 10000)

WorkMechanical(dP, flow, eff, vmol) ==
    RoundDiv(RoundDiv(RoundDiv(dP, 1000) * flow, 1000) * vmol, eff * 100)

\* SolvedValues with the pressure balance written with the wrong sign.
SolvedValuesWrongSign(b, rp, rw) ==
    LET v    == pump.val[b]
        fx   == pump.fixed[b]
        pin  == v["inlet.pressure"]
        dP   == IF "deltaP" \in fx THEN v["deltaP"]
                ELSE pin - v["outlet.pressure"] + rp
        pout == IF "outlet.pressure" \in fx THEN v["outlet.pressure"]
                ELSE pin - v["deltaP"] + rp
    IN  [v EXCEPT !["deltaP"] = dP,
                  !["outlet.pressure"] = pout,
                  !["outlet.flow_mol"] = v["inlet.flow_mol"],
                  !["work_fluid"] = WorkFluid(dP, v["inlet.flow_mol"], pump.vmol),
                  !["work_mechanical"] =
                      WorkMechanical(dP, v["inlet.flow_mol"],
                                     v["efficiency_pump"], pump.vmol) + rw]

\* SolvedValues that, when deltaP is the unknown, takes the outlet pressure
\* against the atmosphere instead of against the inlet.
SolvedValuesAgainstAtmosphere(b, rp, rw) ==
    LET v    == pump.val[b]
        fx   == pump.fixed[b]
        pin  == v["inlet.pressure"]
        dP   == IF "deltaP" \in fx THEN v["deltaP"]
                ELSE v["outlet.pressure"] - 101325000 - pin + rp
        pout == IF "outlet.pressure" \in fx THEN v["outlet.pressure"]
                ELSE pin + v["deltaP"] + rp
    IN  [v EXCEPT !["deltaP"] = dP,
                  !["outlet.pressure"] = pout,
                  !["outlet.flow_mol"] = v["inlet.flow_mol"],
                  !["work_fluid"] = WorkFluid(dP, v["inlet.flow_mol"], pump.vmol),
                  !["work_mechanical"] =
                      WorkMechanical(dP, v["inlet.flow_mol"],
                                     v["efficiency_pump"], pump.vmol) + rw]

\* Values of block b after a solve that leaves residual rp on the pressure
\* balance and rw on the work equations: the unfixed one of outlet.pressure and
\* deltaP is determined by  outlet.pressure = inlet.pressure + deltaP.
SolvedValues(b, rp, rw) ==
    LET v    == pump.val[b]
        fx   == pump.fixed[b]
        pin  == v["inlet.pressure"]
        dP   == IF "deltaP" \in fx THEN v["deltaP"]
                ELSE v["outlet.pressure"] - pin + rp
        pout == IF "outlet.pressure" \in fx THEN v["outlet.pressure"]
                ELSE pin + v["deltaP"] + rp
        flow == v["inlet.flow_mol"]
        eff  == v["efficiency_pump"]
    IN  [v EXCEPT !["deltaP"] = dP,
                  !["outlet.pressure"] = pout,
                  !["outlet.flow_mol"] = flow,
                  !["work_fluid"] = WorkFluid(dP, flow, pump.vmol),
                  !["work_mechanical"] =
                      WorkMechanical(dP, flow, eff, pump.vmol) + rw]

\* What opt.solve returns in result.solver.
TerminationConditions == {"optimal", "infeasible", "maxIterations"}
SolverStatuses == {"ok", "warning"}
Converged(st) == st.termination_condition = "optimal" /\ st.status = "ok"

\* Residuals of a solve by its outcome: within tolerance when it converged,
\* anything (here: far off, or by chance accurate) when it did not.
Residuals(st) ==
    IF Converged(st) THEN (0 - MaxResidual)..MaxResidual
    ELSE {0 - 1000 * (MaxResidual + 1), 0, 1000 * (MaxResidual + 1)}

DefaultValues == [v \in TrackedVars |-> 0]

PumpInit(vm) ==
    [vmol |-> vm,
     names |-> {},
     attached |-> {},
     fixed |-> [b \in PumpBlocks |-> {}],
     val |-> [b \in PumpBlocks |-> DefaultValues],
     DOF_initial |-> Undef,
     DOF_final |-> Undef,
     solve_status |-> Undef]

Init ==
    /\ nb \in {"pump", "pump_doc", "pysmo", "alamo", "chem", "pid", "txy"}
    /\ pc = 1
    /\ raised = FALSE
    /\ pump \in {PumpInit(vm) : vm \in IF nb \in PumpNotebooks THEN VmolValues ELSE {0}}
    /\ atr = AtrInit
    /\ chem = ChemInit
    /\ pid = PidInit
    /\ txy = TxyInit

\* from ... import <names> / import ... as <name>
Import ==
    /\ nb \in PumpNotebooks /\ Exec("import")
    /\ pump' = [pump EXCEPT !.names = @ \cup Defines(Cur)]
    /\ Advance
    /\ UNCHANGED <<nb, atr, chem, pid, txy>>

\* m = ConcreteModel(); m.fs = FlowsheetBlock(dynamic=False)
Setup ==
    /\ nb \in PumpNotebooks /\ Exec("setup")
    /\ pump' = [pump EXCEPT !.names = @ \cup Defines(Cur)]
    /\ Advance
    /\ UNCHANGED <<nb, atr, chem, pid, txy>>

\* m.fs.properties = iapws95.Iapws95ParameterBlock(phase_presentation=PhaseType.L)
AddProperties ==
    /\ nb \in PumpNotebooks /\ Exec("properties")
    /\ Advance
    /\ UNCHANGED <<nb, pump, atr, chem, pid, txy>>

\* opt = SolverFactory("ipopt")
MakeSolver ==
    /\ nb \in PumpNotebooks /\ Exec("solver_factory")
    /\ pump' = [pump EXCEPT !.names = @ \cup Defines(Cur)]
    /\ Advance
    /\ UNCHANGED <<nb, atr, chem, pid, txy>>

\* AddPump that lets the new unit share the fixed flags of the units already
\* on the flowsheet.
AddPumpSharedFlags ==
    /\ nb \in PumpNotebooks /\ Exec("add")
    /\ pump' = [pump EXCEPT !.attached = @ \cup {Cur.blk},
                            !.fixed[Cur.blk] =
                                UNION {pump.fixed[b] : b \in pump.attached},
                            !.val[Cur.blk] = DefaultValues]
    /\ Advance
    /\ UNCHANGED <<nb, atr, chem, pid, txy>>

\* m.fs.<blk> = Pump(property_package=m.fs.properties)
AddPump ==
    /\ nb \in PumpNotebooks /\ Exec("add")
    /\ pump' = [pump EXCEPT !.attached = @ \cup {Cur.blk},
                            !.fixed[Cur.blk] = {},
                            !.val[Cur.blk] = DefaultValues]
    /\ Advance
    /\ UNCHANGED <<nb, atr, chem, pid, txy>>

\* DOF_initial / DOF_final = degrees_of_freedom(<scope>)
ReadDOF ==
    /\ nb \in PumpNotebooks /\ Exec("dof")
    /\ pump' = [pump EXCEPT ![Cur.var] = <<degrees_of_freedom(Cur.blk)>>,
                            !.names = @ \cup Defines(Cur)]
    /\ Advance
    /\ UNCHANGED <<nb, atr, chem, pid, txy>>

\* assert DOF_initial == 5 / assert DOF_final == 0
AssertDOF ==
    /\ nb \in PumpNotebooks /\ Exec("assert_dof")
    /\ IF pump[Cur.var] = <<Cur.val>> THEN Advance ELSE Raise
    /\ UNCHANGED <<nb, pump, atr, chem, pid, txy>>

\* FixVar that sets the value and leaves the variable free.
FixVarValueOnly ==
    /\ nb \in PumpNotebooks /\ Exec("fix")
    /\ pump' = [pump EXCEPT !.val[Cur.blk][Cur.var] = Cur.val]
    /\ Advance
    /\ UNCHANGED <<nb, atr, chem, pid, txy>>

\* <blk>.<var>.fix(<value>)
FixVar ==
    /\ nb \in PumpNotebooks /\ Exec("fix")
    /\ pump' = [pump EXCEPT !.fixed[Cur.blk] = @ \cup {Cur.var},
                            !.val[Cur.blk][Cur.var] = Cur.val]
    /\ Advance
    /\ UNCHANGED <<nb, atr, chem, pid, txy>>

\* <blk>.initialize(outlvl=idaeslog.INFO): needs a square block, solves it and
\* leaves the fixed flags as they were.
Initialize ==
    /\ nb \in PumpNotebooks /\ Exec("initialize")
    /\ IF degrees_of_freedom(Cur.blk) # 0
       THEN Raise /\ pump' = pump
       ELSE /\ \E rp, rw \in (0 - MaxResidual)..MaxResidual :
                 pump' = [pump EXCEPT !.val[Cur.blk] = SolvedValues(Cur.blk, rp, rw)]
            /\ Advance
    /\ UNCHANGED <<nb, atr, chem, pid, txy>>

\* Solve that solves every unit on the flowsheet whatever it is given.
SolveWholeModel ==
    /\ nb \in PumpNotebooks /\ Exec("solve")
    /\ \E tc \in TerminationConditions, ss \in SolverStatuses :
          LET st == [termination_condition |-> tc, status |-> ss]
          IN  \E rp, rw \in Residuals(st) :
                 pump' = [pump EXCEPT
                     !.names = @ \cup Defines(Cur),
                     !.solve_status = st,
                     !.val = [b \in PumpBlocks |->
                                 IF b \in pump.attached
                                 THEN SolvedValues(b, rp, rw)
                                 ELSE pump.val[b]]]
    /\ Advance
    /\ UNCHANGED <<nb, atr, chem, pid, txy>>

\* solve_status = opt.solve(<scope>, tee=True)
Solve ==
    /\ nb \in PumpNotebooks /\ Exec("solve")
    /\ \E tc \in TerminationConditions, ss \in SolverStatuses :
          LET st == [termination_condition |-> tc, status |-> ss]
          IN  \E rp, rw \in Residuals(st) :
                 pump' = [pump EXCEPT
                     !.names = @ \cup Defines(Cur),
                     !.solve_status = st,
                     !.val = [b \in PumpBlocks |->
                                 IF b \in Scope(Cur.blk)
                                 THEN SolvedValues(b, rp, rw)
                                 ELSE pump.val[b]]]
    /\ Advance
    /\ UNCHANGED <<nb, atr, chem, pid, txy>>

\* AssertStatus without its second assertion.
AssertStatusTerminationOnly ==
    /\ nb \in PumpNotebooks /\ Exec("assert_status")
    /\ IF /\ pump.solve_status # Undef
          /\ pump.solve_status.termination_condition = "optimal"
       THEN Advance ELSE Raise
    /\ UNCHANGED <<nb, pump, atr, chem, pid, txy>>

\* assert solve_status.solver.termination_condition == TerminationCondition.optimal
\* assert solve_status.solver.status == SolverStatus.ok
AssertStatus ==
    /\ nb \in PumpNotebooks /\ Exec("assert_status")
    /\ IF /\ pump.solve_status # Undef
          /\ pump.solve_status.termination_condition = "optimal"
          /\ pump.solve_status.status = "ok"
       THEN Advance ELSE Raise
    /\ UNCHANGED <<nb, pump, atr, chem, pid, txy>>

\* <blk>.report()
Report ==
    /\ nb \in PumpNotebooks /\ Exec("report")
    /\ Advance
    /\ UNCHANGED <<nb, pump, atr, chem, pid, txy>>

\* assert <blk>.<var>.value == pytest.approx(<expected>, abs=1e-2)
CheckResult ==
    /\ nb \in PumpNotebooks /\ Exec("check")
    /\ IF ApproxAbs(pump.val[Cur.blk][Cur.var], Cur.val, CheckTol)
       THEN Advance ELSE Raise
    /\ UNCHANGED <<nb, pump, atr, chem, pid, txy>>

(***************************************************************************)
(* Statements of the reformer notebooks.                                   *)
(***************************************************************************)
NotAtr == <<nb, pump, chem, pid, txy>>

\* A statement in the body of an if whose condition is false is not executed;
\* a condition or a statement that reads a name that is not bound raises
\* NameError.
SkipStatement ==
    /\ Running /\ (~CondDefined \/ ~CondHolds \/ ~NamesBound)
    /\ IF CondDefined /\ (~CondHolds \/ NamesBound) THEN Advance ELSE Raise
    /\ UNCHANGED <<nb, pump, atr, chem, pid, txy>>

\* print(...) and library output: the lines go to whatever sys.stdout is.
WriteLines(a, ls) ==
    IF a.stdout = "original" THEN [a EXCEPT !.console = @ \o ls]
    ELSE [a EXCEPT !.stream = @ \o ls]

\* stream = StringIO(); oldstdout = sys.stdout; sys.stdout = stream
Redirect ==
    /\ Reformer /\ Exec("redirect")
    /\ atr' = [atr EXCEPT !.stream = << >>,
                          !.oldstdout = <<atr.stdout>>,
                          !.stdout = "stream"]
    /\ Advance
    /\ UNCHANGED NotAtr

\* sys.stdout = oldstdout
Restore ==
    /\ Reformer /\ Exec("restore")
    /\ IF atr.oldstdout # Undef
       THEN atr' = [atr EXCEPT !.stdout = atr.oldstdout[1]] /\ Advance
       ELSE atr' = atr /\ Raise
    /\ UNCHANGED NotAtr

\* data = csv_data.sample(n=100): 100 distinct rows of the 2800
Sample ==
    /\ Reformer /\ Exec("sample")
    /\ \E k \in 0..MaxOffset :
          /\ k + Cur.val <= NCsv
          /\ atr' = [atr EXCEPT !.data = Interval(k + 1, Cur.val)]
    /\ Advance
    /\ UNCHANGED NotAtr

\* n_data = data[input_labels[0]].size
ReadSize ==
    /\ Reformer /\ Exec("n_data")
    /\ atr' = [atr EXCEPT !.n_data = <<Len(atr.data)>>]
    /\ Advance
    /\ UNCHANGED NotAtr

\* data_training, data_validation = split_training_validation(data, 0.8, seed=n_data)
Split ==
    /\ Reformer /\ Exec("split")
    /\ \E r \in 0..MaxShift :
          LET parts == split_training_validation(atr.data, Cur.val, r)
          IN  atr' = [atr EXCEPT !.seed = atr.n_data,
                                 !.data_training = parts[1],
                                 !.data_validation = parts[2]]
    /\ Advance
    /\ UNCHANGED NotAtr

\* The training run's output: n numbered lines.
TrainingOutput(n) == [i \in 1..n |-> OutputLine("training", i)]

\* Train whose except clause swallows every FileNotFoundError.
TrainSwallowsAll ==
    /\ Reformer /\ Exec("train")
    /\ LET a == IF nb = "alamo" THEN [atr EXCEPT !.has_alamo = <<TRUE>>]
                ELSE atr
       IN  \/ \E n \in CapturedLineCounts, b \in TrainerInputBounds :
                /\ atr' = [WriteLines(a, TrainingOutput(n)) EXCEPT
                              !.trained = TRUE,
                              !.surr = IF nb = "alamo"
                                       THEN <<Surrogate(input_labels,
                                                        output_labels, b,
                                                        "trained")>>
                                       ELSE @]
                /\ Advance
           \/ \E e \in TrainErrors :
                IF nb = "alamo" /\ e.type = "FileNotFoundError"
                THEN /\ atr' = [WriteLines(a, <<AlamoNotFoundMessage>>) EXCEPT
                                   !.err = <<e>>, !.has_alamo = <<FALSE>>]
                     /\ Advance
                ELSE /\ atr' = [a EXCEPT !.err = <<e>>]
                     /\ Raise
    /\ UNCHANGED NotAtr

\* trainer.train_surrogate().  It writes its log to sys.stdout and returns, or
\* raises.  PySMO: poly_train = ...; an exception ends the run.  ALAMO:
\* has_alamo = True; success, alm_surr, msg = ...; a FileNotFoundError whose
\* text contains 'Could not find ALAMO' is answered by printing the message
\* and has_alamo = False, any other exception propagates.
Train ==
    /\ Reformer /\ Exec("train")
    /\ LET a == IF nb = "alamo" THEN [atr EXCEPT !.has_alamo = <<TRUE>>]
                ELSE atr
       IN  \/ \E n \in CapturedLineCounts, b \in TrainerInputBounds :
                /\ nb = "pysmo" => b = input_bounds
                /\ atr' = [WriteLines(a, TrainingOutput(n)) EXCEPT
                              !.trained = TRUE,
                              !.surr = IF nb = "alamo"
                                       THEN <<Surrogate(input_labels,
                                                        output_labels, b,
                                                        "trained")>>
                                       ELSE @]
                /\ Advance
           \/ \E e \in TrainErrors :
                IF /\ nb = "alamo" /\ e.type = "FileNotFoundError"
                   /\ InText("Could not find ALAMO", e)
                THEN /\ atr' = [WriteLines(a, <<AlamoNotFoundMessage>>) EXCEPT
                                   !.err = <<e>>, !.has_alamo = <<FALSE>>]
                     /\ Advance
                ELSE /\ atr' = [a EXCEPT !.err = <<e>>]
                     /\ Raise
    /\ UNCHANGED NotAtr

\* poly_surr = PysmoSurrogate(poly_train, input_labels, output_labels,
\* input_bounds); alm_surr = AlamoSurrogate(surrogate_expressions,
\* input_labels, output_labels, input_bounds)
SurrogateObject ==
    /\ Reformer /\ Exec("surrogate_object")
    /\ IF atr.trained
       THEN /\ atr' = [atr EXCEPT
                          !.surr = <<Surrogate(input_labels, output_labels,
                                               input_bounds, "trained")>>]
            /\ Advance
       ELSE atr' = atr /\ Raise
    /\ UNCHANGED NotAtr

\* The JSON text of a surrogate: the bounds become a list of
\* [label, lower, upper] entries.
to_json(o) ==
    [input_labels |-> o.input_labels,
     output_labels |-> o.output_labels,
     input_bounds |->
        [i \in DOMAIN o.input_labels |->
            <<o.input_labels[i], o.input_bounds[o.input_labels[i]][1],
              o.input_bounds[o.input_labels[i]][2]>>],
     surrogate |-> o.surrogate]

\* The surrogate read back from its JSON text.
from_json(j) ==
    Surrogate(j.input_labels, j.output_labels,
              [l \in {j.input_bounds[i][1] : i \in DOMAIN j.input_bounds} |->
                  LET e == CHOOSE i \in DOMAIN j.input_bounds :
                               j.input_bounds[i][1] = l
                  IN  <<j.input_bounds[e][2], j.input_bounds[e][3]>>],
              j.surrogate)

\* model = <surr>.save_to_file("<name>.json", overwrite=True): the object the
\* name is bound to when the statement runs
Save ==
    /\ Reformer /\ Exec("save")
    /\ IF atr.surr # Undef
       THEN atr' = [atr EXCEPT !.file = <<to_json(atr.surr[1])>>] /\ Advance
       ELSE atr' = atr /\ Raise
    /\ UNCHANGED NotAtr

\* The first n and the last n entries of a list: s[:n], s[-n:].
FirstLines(s, n) == SubSeq(s, 1, Min(n, Len(s)))
LastLines(s, n) == SubSeq(s, Max(1, Len(s) - n + 1), Len(s))

\* celloutput = stream.getvalue().split("\n"); print celloutput[:50], three
\* lines ".", celloutput[-50:]
Display ==
    /\ Reformer /\ Exec("display")
    /\ LET co == atr.stream \o <<EmptyPiece>>
       IN  atr' = [WriteLines(atr, FirstLines(co, Cur.val)
                                   \o <<Separator, Separator, Separator>>
                                   \o LastLines(co, Cur.val))
                   EXCEPT !.celloutput = co]
    /\ Advance
    /\ UNCHANGED NotAtr

\* surrogate_scatter2D / surrogate_parity / surrogate_residual(<surr>, data, ...)
Plot ==
    /\ Reformer /\ Exec("plot")
    /\ IF atr.surr # Undef
       THEN atr' = [atr EXCEPT !.plotted = Append(@, atr.surr[1])] /\ Advance
       ELSE atr' = atr /\ Raise
    /\ UNCHANGED NotAtr

\* surrogate = PysmoSurrogate.load_from_file("pysmo_poly_surrogate.json") /
\* AlamoSurrogate.load_from_file("alamo_surrogate.json"); the PySMO loader
\* writes to sys.stdout
Load ==
    /\ Reformer /\ Exec("load")
    /\ IF atr.file # Undef
       THEN /\ atr' = [WriteLines(atr, IF nb = "pysmo"
                                       THEN <<OutputLine("load", 1)>>
                                       ELSE << >>)
                       EXCEPT !.surrogate = <<from_json(atr.file[1])>>]
            /\ Advance
       ELSE atr' = atr /\ Raise
    /\ UNCHANGED NotAtr

\* m.fs.surrogate.build_model(surrogate, input_vars=inputs,
\* output_vars=outputs): one equation for each output of the surrogate, the
\* i-th output label with the i-th variable of the list
BuildModel ==
    /\ Reformer /\ Exec("build_model")
    /\ IF /\ atr.surrogate # Undef /\ atr.built
          /\ Len(atr.surrogate[1].output_labels) = Len(outputs)
          /\ Len(atr.surrogate[1].input_labels) = Len(inputs)
       THEN /\ atr' = [atr EXCEPT
                          !.neqs = Len(atr.surrogate[1].output_labels),
                          !.bound =
                              [i \in DOMAIN outputs |->
                                  [label |-> atr.surrogate[1].output_labels[i],
                                   var |-> outputs[i]]]]
            /\ Advance
       ELSE atr' = atr /\ Raise
    /\ UNCHANGED NotAtr

\* print("Model status: ", ...) and the prints that follow it in the cell
PrintResults ==
    /\ Reformer /\ Exec("print")
    /\ atr' = WriteLines(atr, <<Message("Model status: ")>>)
    /\ Advance
    /\ UNCHANGED NotAtr

\* m = ConcreteModel(); m.fs = FlowsheetBlock(); the input and output Vars and
\* the lists inputs and outputs.  val holds, for an input, the value it was
\* initialised to or last fixed at.
BuildFlowsheet ==
    /\ Reformer /\ Exec("build")
    /\ atr' = [atr EXCEPT !.built = TRUE,
                          !.neqs = 0,
                          !.bound = << >>,
                          !.bounds = InputVarBounds,
                          !.fixed = {},
                          !.obj = FALSE,
                          !.con = FALSE,
                          !.val = [bypass_frac |-> InputInitial,
                                   ng_steam_ratio |-> InputInitial,
                                   H2 |-> 0, N2 |-> 0]]
    /\ Advance
    /\ UNCHANGED NotAtr

\* m.fs.<input>.fix(<value>)
FixInput ==
    /\ Reformer /\ Exec("fix_input")
    /\ atr' = [atr EXCEPT !.fixed = @ \cup {Cur.var}, !.val[Cur.var] = Cur.val]
    /\ Advance
    /\ UNCHANGED NotAtr

\* UnfixInput that leaves the variable fixed.
UnfixInputKeepsFixed ==
    /\ Reformer /\ Exec("unfix_input")
    /\ atr' = atr
    /\ Advance
    /\ UNCHANGED NotAtr

\* m.fs.<input>.unfix()
UnfixInput ==
    /\ Reformer /\ Exec("unfix_input")
    /\ atr' = [atr EXCEPT !.fixed = @ \ {Cur.var}]
    /\ Advance
    /\ UNCHANGED NotAtr

\* m.fs.obj = Objective(expr=m.fs.H2, sense=maximize)
AddObjective ==
    /\ Reformer /\ Exec("objective")
    /\ atr' = [atr EXCEPT !.obj = TRUE]
    /\ Advance
    /\ UNCHANGED NotAtr

\* m.fs.con = Constraint(expr=m.fs.N2 <= 0.34)
AddConstraint ==
    /\ Reformer /\ Exec("constraint")
    /\ atr' = [atr EXCEPT !.con = TRUE]
    /\ Advance
    /\ UNCHANGED NotAtr

\* The values a solve leaves in H2 and N2: a converged solve keeps N2 within
\* the constraint m.fs.con when it is on the model; nothing else is known of
\* the surrogate's outputs.
SolveOutputs(st) ==
    {o \in [H2 : H2Values, N2 : N2Values] :
        (Converged(st) /\ atr.con) => o.N2 <= N2Limit + ConstraintTol}

\* What a solve finds on the model: the fixed inputs and their values, the
\* objective and constraint, the unfixed variables and the equations.
ModelAtSolve ==
    [fixed |-> atr.fixed,
     bypass_frac |-> atr.val.bypass_frac,
     ng_steam_ratio |-> atr.val.ng_steam_ratio,
     obj |-> atr.obj,
     con |-> atr.con,
     nvars |-> Len(outputs) + Len(inputs) - Cardinality(atr.fixed),
     neqs |-> atr.neqs]

\* status_obj, solved, iters, time = _run_ipopt_with_stats(m, solver)
SolveStats ==
    /\ Reformer /\ Exec("solve_stats")
    /\ \E tc \in TerminationConditions, ss \in SolverStatuses :
          LET st == [termination_condition |-> tc, status |-> ss]
          IN  \E o \in SolveOutputs(st) :
                 atr' = [atr EXCEPT !.status_obj = <<st>>,
                                    !.val.H2 = o.H2, !.val.N2 = o.N2,
                                    !.solve_log = Append(@, ModelAtSolve),
                                    !.solves = @ + 1]
    /\ Advance
    /\ UNCHANGED NotAtr

\* else: status_obj = None
StatusNone ==
    /\ Reformer /\ Exec("status_none")
    /\ atr' = [atr EXCEPT !.status_obj = <<NoneStatus>>]
    /\ Advance
    /\ UNCHANGED NotAtr

\* status = solver.solve(m, tee=True): the result is stored, not inspected
SolveOpt ==
    /\ Reformer /\ Exec("solve_opt")
    /\ \E tc \in TerminationConditions, ss \in SolverStatuses :
          LET st == [termination_condition |-> tc, status |-> ss]
          IN  \E o \in SolveOutputs(st) :
                 atr' = [atr EXCEPT !.status = st,
                                    !.val.H2 = o.H2, !.val.N2 = o.N2,
                                    !.solve_log = Append(@, ModelAtSolve),
                                    !.solves = @ + 1]
    /\ Advance
    /\ UNCHANGED NotAtr

\* AssertH2 with a tolerance ten times as wide.
AssertH2Wide ==
    /\ Reformer /\ Exec("assert_H2")
    /\ IF Abs(atr.val.H2 - Cur.val) <= 10 * H2Tol THEN Advance ELSE Raise
    /\ UNCHANGED <<nb, pump, atr, chem, pid, txy>>

\* assert abs(value(m.fs.H2) - 0.33) <= 0.01
AssertH2 ==
    /\ Reformer /\ Exec("assert_H2")
    /\ IF Abs(atr.val.H2 - Cur.val) <= H2Tol THEN Advance ELSE Raise
    /\ UNCHANGED <<nb, pump, atr, chem, pid, txy>>

\* assert value(m.fs.N2 <= 0.4 + 1e-8)
AssertN2 ==
    /\ Reformer /\ Exec("assert_N2")
    /\ IF atr.val.N2 <= Cur.val THEN Advance ELSE Raise
    /\ UNCHANGED <<nb, pump, atr, chem, pid, txy>>

(***************************************************************************)
(* Statements of the chemical Akzo Nobel notebook.                         *)
(***************************************************************************)
NotChem == <<nb, pump, atr, pid, txy>>

\* m, y1, y2, y3, y4, y5, y6 = dae(nfe=10): the model with its time set
\* discretised and the initial conditions at t = 0
CreateDae ==
    /\ nb = "chem" /\ Exec("dae")
    /\ chem' = [chem EXCEPT
                   !.created = TRUE,
                   !.nfe = Cur.val,
                   !.t = m_t(Cur.val),
                   !.filled = {m_t(Cur.val)[1]},
                   !.yt = [p \in Range(m_t(Cur.val)) |-> InitialValue]]
    /\ Advance
    /\ UNCHANGED NotChem

\* What a successful integration leaves: one time element for each pair of
\* neighbours in `between`; the trajectory; the values at the points of
\* `between` loaded into the model and, with fill set, those at the skipped
\* points of m.t interpolated from the trajectory.
Integrated(y, shape, fill) ==
    LET between == <<chem.t[1], chem.t[Len(chem.t)]>>
        tj == [time |-> shape.time,
               vec |-> [shape.vec EXCEPT ![Len(shape.vec)] = y[TrackedSpecies]]]
        got == IF fill THEN Range(chem.t) ELSE Range(between)
    IN  [chem EXCEPT
            !.y180 = y,
            !.integrated = TRUE,
            !.between = between,
            !.elements = Len(between) - 1,
            !.tj = IF SavesTrajectory(Cur.val) THEN <<tj>> ELSE Undef,
            !.ts_options = Cur.val,
            !.filled = got,
            !.yt = [p \in Range(chem.t) |->
                       IF p \in got THEN interp(tj, p) ELSE chem.yt[p]]]

\* PetscChem that loads the end points of the time element only.
PetscChemEndPointsOnly ==
    /\ nb = "chem" /\ Exec("petsc_chem")
    /\ \/ /\ \E y \in [Species -> SolvedValuesAt180], sh \in TrajectoryShapes :
                chem' = Integrated(y, sh, FALSE)
          /\ Advance
       \/ /\ chem' = chem
          /\ Raise
    /\ UNCHANGED NotChem

\* result = petsc.petsc_dae_by_time_element(m, time=m.t, between=[first, last],
\* ts_options=...); tj = result.trajectory: returns with the values loaded
\* into the model (interpolation of skipped points is the default), or raises
\* when the solver fails.
PetscChem ==
    /\ nb = "chem" /\ Exec("petsc_chem")
    /\ \/ /\ \E y \in [Species -> SolvedValuesAt180], sh \in TrajectoryShapes :
                chem' = Integrated(y, sh, TRUE)
          /\ Advance
       \/ /\ chem' = chem
          /\ Raise
    /\ UNCHANGED NotChem

\* plt.plot(m.t, [pyo.value(m.y[t, i]) for t in m.t]): reads the value at
\* every point of m.t; a variable without a value raises
PlotModel ==
    /\ nb = "chem" /\ Exec("plot_model")
    /\ IF Range(chem.t) \subseteq chem.filled THEN Advance ELSE Raise
    /\ UNCHANGED <<nb, pump, atr, chem, pid, txy>>

\* plt.plot(<tj>.time, <tj>.get_vec(m.y[180, i]))
PlotTrajectory ==
    /\ nb = "chem" /\ Exec("plot_trajectory")
    /\ IF chem[Cur.var] # Undef
       THEN /\ chem' = [chem EXCEPT
                           !.plotted = Append(@, [name |-> Cur.var,
                                                  data |-> chem[Cur.var][1]])]
            /\ Advance
       ELSE chem' = chem /\ Raise
    /\ UNCHANGED NotChem

\* tji = tj.interpolate(np.linspace(0, 180, 181))
Interpolate ==
    /\ nb = "chem" /\ Exec("interpolate")
    /\ IF chem.tj # Undef
       THEN /\ chem' = [chem EXCEPT
                           !.tji = <<interpolate(chem.tj[1],
                                                 linspace(0, TimeEnd * TimeScale,
                                                          Cur.val))>>]
            /\ Advance
       ELSE chem' = chem /\ Raise
    /\ UNCHANGED NotChem

\* AssertRelError with <= in place of <.
AssertRelErrorNonStrict ==
    /\ nb = "chem" /\ Exec("assert_rel")
    /\ IF Abs(RefValue - chem.y180[Cur.var]) * Cur.val <= RefValue
       THEN Advance ELSE Raise
    /\ UNCHANGED <<nb, pump, atr, chem, pid, txy>>

\* assert abs(y<i> - pyo.value(m.y[180, i])) / y<i> < 1e-3   (m.y6[180] for i = 6)
AssertRelError ==
    /\ nb = "chem" /\ Exec("assert_rel")
    /\ IF Abs(RefValue - chem.y180[Cur.var]) * Cur.val < RefValue
       THEN Advance ELSE Raise
    /\ UNCHANGED <<nb, pump, atr, chem, pid, txy>>

(***************************************************************************)
(* Statements of the PID notebook.                                         *)
(***************************************************************************)
NotPid == <<nb, pump, atr, chem, txy>>

TimePoints == Range(pid.time_set)

\* CreateModel that keeps the time set of the model it replaces.
CreateModelKeepsTimeSet ==
    /\ nb = "pid" /\ Exec("create_model")
    /\ LET ts == IF pid.scenario = 0 THEN Cur.blk ELSE pid.time_set
       IN  \E fx \in SUBSET Range(ts) :
              pid' = [pid EXCEPT !.scenario = @ + 1,
                                 !.time_set = ts,
                                 !.nfe = Cur.val,
                                 !.p_fixed = fx,
                                 !.p_val = [t \in Range(ts) |-> PressureLow],
                                 !.time_var = FALSE,
                                 !.tv_fixed = {},
                                 !.tv_val = << >>,
                                 !.eqn = "none",
                                 !.eqn_active = {}]
    /\ Advance
    /\ UNCHANGED NotPid

\* m = pid.create_model(time_set=..., nfe=..., calc_integ=True): a new model
\* replaces the one bound to m.  Which inlet pressures the new model holds
\* fixed is the model module's choice.
CreateModel ==
    /\ nb = "pid" /\ Exec("create_model")
    /\ \E fx \in SUBSET Range(Cur.blk) :
          pid' = [pid EXCEPT !.scenario = @ + 1,
                             !.time_set = Cur.blk,
                             !.nfe = Cur.val,
                             !.p_fixed = fx,
                             !.p_val = [t \in Range(Cur.blk) |-> PressureLow],
                             !.time_var = FALSE,
                             !.tv_fixed = {},
                             !.tv_val = << >>,
                             !.eqn = "none",
                             !.eqn_active = {}]
    /\ Advance
    /\ UNCHANGED NotPid

\* m.fs.time_var = pyo.Var(m.fs.time)
DeclareTimeVar ==
    /\ nb = "pid" /\ Exec("time_var")
    /\ pid' = [pid EXCEPT !.time_var = TRUE,
                          !.tv_fixed = {},
                          !.tv_val = [t \in TimePoints |-> Undef]]
    /\ Advance
    /\ UNCHANGED NotPid

\* ...properties_in[t].pressure.fix(value); KeyError when t is not in the set
FixPressure ==
    /\ nb = "pid" /\ Exec("fix_pressure")
    /\ IF Cur.var \in TimePoints
       THEN /\ pid' = [pid EXCEPT !.p_fixed = @ \cup {Cur.var},
                                  !.p_val[Cur.var] = Cur.val]
            /\ Advance
       ELSE pid' = pid /\ Raise
    /\ UNCHANGED NotPid

\* ...properties_in[t].pressure.set_value(value)
SetPressure ==
    /\ nb = "pid" /\ Exec("set_pressure")
    /\ IF Cur.var \in TimePoints
       THEN /\ pid' = [pid EXCEPT !.p_val[Cur.var] = Cur.val]
            /\ Advance
       ELSE pid' = pid /\ Raise
    /\ UNCHANGED NotPid

\* ...properties_in[t].pressure.unfix()
UnfixPressure ==
    /\ nb = "pid" /\ Exec("unfix_pressure")
    /\ IF Cur.var \in TimePoints
       THEN /\ pid' = [pid EXCEPT !.p_fixed = @ \ {Cur.var}]
            /\ Advance
       ELSE pid' = pid /\ Raise
    /\ UNCHANGED NotPid

\* FixTimeVar that sets the value and leaves the variable free.
FixTimeVarValueOnly ==
    /\ nb = "pid" /\ Exec("fix_time_var")
    /\ IF pid.time_var /\ Cur.var \in TimePoints
       THEN /\ pid' = [pid EXCEPT !.tv_val[Cur.var] = <<pid.time_set[1]>>]
            /\ Advance
       ELSE pid' = pid /\ Raise
    /\ UNCHANGED NotPid

\* m.fs.time_var[0].fix(m.fs.time.first())
FixTimeVar ==
    /\ nb = "pid" /\ Exec("fix_time_var")
    /\ IF pid.time_var /\ Cur.var \in TimePoints
       THEN /\ pid' = [pid EXCEPT !.tv_fixed = @ \cup {Cur.var},
                                  !.tv_val[Cur.var] = <<pid.time_set[1]>>]
            /\ Advance
       ELSE pid' = pid /\ Raise
    /\ UNCHANGED NotPid

\* @m.fs.Constraint(m.fs.time) def inlet_pressure_eqn(b, t): one constraint per
\* time point, each active when created
DeclarePressureEqn ==
    /\ nb = "pid" /\ Exec("pressure_eqn")
    /\ IF pid.time_var
       THEN /\ pid' = [pid EXCEPT !.eqn = Cur.blk, !.eqn_active = TimePoints]
            /\ Advance
       ELSE pid' = pid /\ Raise
    /\ UNCHANGED NotPid

\* DeactivateEqn that forgets the members of the indexed constraint.
DeactivateEqnContainerOnly ==
    /\ nb = "pid" /\ Exec("deactivate_eqn")
    /\ pid' = pid
    /\ Advance
    /\ UNCHANGED NotPid

\* m.fs.inlet_pressure_eqn.deactivate(): every member
DeactivateEqn ==
    /\ nb = "pid" /\ Exec("deactivate_eqn")
    /\ IF pid.eqn # "none"
       THEN /\ pid' = [pid EXCEPT !.eqn_active = {}]
            /\ Advance
       ELSE pid' = pid /\ Raise
    /\ UNCHANGED NotPid

\* m.fs.inlet_pressure_eqn[t].activate()
ActivateEqn ==
    /\ nb = "pid" /\ Exec("activate_eqn")
    /\ IF pid.eqn # "none" /\ Cur.var \in TimePoints
       THEN /\ pid' = [pid EXCEPT !.eqn_active = @ \cup {Cur.var}]
            /\ Advance
       ELSE pid' = pid /\ Raise
    /\ UNCHANGED NotPid

\* The time point whose variables and constraints govern tick k: the end of
\* the time element k lies in (the first point for the initial conditions).
ElementEnd(k) ==
    CHOOSE t \in TimePoints :
        /\ k <= t * TicksPerSecond
        /\ \A u \in TimePoints : k <= u * TicksPerSecond => t <= u

EqnActive(t) == pid.eqn # "none" /\ t \in pid.eqn_active

\* The inlet pressure at point t is fixed or given by its constraint, not both
\* and not neither; a constraint at the first point needs time_var fixed there.
Determined(t) ==
    /\ (t \in pid.p_fixed) # EqnActive(t)
    /\ (EqnActive(t) /\ t = pid.time_set[1]) => t \in pid.tv_fixed

\* Inlet pressure the integration gives at tick k.
PressureAt(k) ==
    LET t == ElementEnd(k)
    IN  IF t \in pid.p_fixed THEN pid.p_val[t]
        ELSE IF pid.eqn = "smooth ramp" THEN smooth_ramp_pressure(k)
        ELSE linear_pressure(k)

\* What a completed solve returns as result.trajectory: the data of this
\* solve of this model when the options ask for it, otherwise None.
Trajectory(opts) ==
    [model |-> pid.scenario,
     solve |-> pid.solves + 1,
     options |-> opts,
     none |-> ~SavesTrajectory(opts)]

\* PetscPid that binds tj at the first solve only.
PetscPidKeepsTrajectory ==
    /\ nb = "pid" /\ Exec("petsc_pid")
    /\ \/ /\ \A t \in TimePoints : Determined(t)
          /\ LET last == pid.time_set[Len(pid.time_set)] * TicksPerSecond
             IN  pid' = [pid EXCEPT
                            !.solves = @ + 1,
                            !.traj = Append(@, [k \in 0..last |-> PressureAt(k)]),
                            !.tj = IF @ = Undef
                                   THEN <<Trajectory(Cur.val)>> ELSE @]
          /\ Advance
       \/ /\ pid' = pid
          /\ Raise
    /\ UNCHANGED NotPid

\* result = petsc.petsc_dae_by_time_element(m, time=m.fs.time, ...): integrates
\* element by element and returns the trajectory, the fixed and active flags
\* as they were; or raises (the solver fails, or the problem is not square).
\* tj = result.trajectory follows in the same cell.
PetscPid ==
    /\ nb = "pid" /\ Exec("petsc_pid")
    /\ \/ /\ \A t \in TimePoints : Determined(t)
          /\ LET last == pid.time_set[Len(pid.time_set)] * TicksPerSecond
             IN  pid' = [pid EXCEPT
                            !.solves = @ + 1,
                            !.traj = Append(@, [k \in 0..last |-> PressureAt(k)]),
                            !.tj = <<Trajectory(Cur.val)>>]
          /\ Advance
       \/ /\ pid' = pid
          /\ Raise
    /\ UNCHANGED NotPid

\* plt.plot(tj.time, tj.get_vec(<variable>[t])): NameError without tj,
\* AttributeError when tj is None, KeyError when t is not in the time set
PlotTj ==
    /\ nb = "pid" /\ Exec("plot_tj")
    /\ IF pid.tj # Undef /\ ~pid.tj[1].none /\ Cur.var \in TimePoints
       THEN /\ pid' = [pid EXCEPT
                          !.plots = Append(@, [line |-> Cur.line,
                                               index |-> Cur.var,
                                               model |-> pid.scenario,
                                               solves |-> pid.solves,
                                               tj |-> pid.tj[1]])]
            /\ Advance
       ELSE pid' = pid /\ Raise
    /\ UNCHANGED NotPid

(***************************************************************************)
(* Statements of the Txy notebook.                                         *)
(***************************************************************************)
NotTxy == <<nb, pump, atr, chem, pid>>

\* configuration = {...}
Configure ==
    /\ nb = "txy" /\ Exec("configuration")
    /\ txy' = [txy EXCEPT !.configuration = <<Cur.val>>]
    /\ Advance
    /\ UNCHANGED NotTxy

\* model = ConcreteModel()
CreateTxyModel ==
    /\ nb = "txy" /\ Exec("model")
    /\ txy' = [txy EXCEPT !.model = TRUE]
    /\ Advance
    /\ UNCHANGED NotTxy

\* model.params = GenericParameterBlock(**configuration): the parameter block
\* holds the phases, components and state bounds of the configuration
AttachParams ==
    /\ nb = "txy" /\ Exec("params")
    /\ IF txy.model /\ txy.configuration # Undef
       THEN /\ txy' = [txy EXCEPT !.params = txy.configuration]
            /\ Advance
       ELSE txy' = txy /\ Raise
    /\ UNCHANGED NotTxy

\* Txy_diagram(model, "benzene", "toluene", 101325, ..., temperature=150.15,
\* ...): builds states at the given pressure and temperature for components
\* of the parameter block and solves num_points of them; a failed solve
\* raises.
TxyDiagram ==
    /\ nb = "txy" /\ Exec("txy_diagram")
    /\ IF /\ txy.params # Undef
          /\ {Cur.val.component_1, Cur.val.component_2}
                 \subseteq DOMAIN txy.params[1].components
       THEN \/ /\ \E n \in 0..(Cur.val.num_points - 1) :
                      txy' = [txy EXCEPT !.diagram = <<Cur.val>>, !.drawn = n]
               /\ Raise
            \/ /\ txy' = [txy EXCEPT !.diagram = <<Cur.val>>,
                                      !.drawn = Cur.val.num_points]
               /\ Advance
       ELSE txy' = txy /\ Raise
    /\ UNCHANGED NotTxy

Next ==
    \/ Import
    \/ Setup
    \/ AddProperties
    \/ MakeSolver
    \/ AddPump
    \/ ReadDOF
    \/ AssertDOF
    \/ FixVar
    \/ Initialize
    \/ Solve
    \/ AssertStatus
    \/ Report
    \/ CheckResult
    \/ SkipStatement
    \/ Sample
    \/ ReadSize
    \/ Split
    \/ Redirect
    \/ Restore
    \/ Train
    \/ SurrogateObject
    \/ Save
    \/ Display
    \/ Plot
    \/ Load
    \/ BuildModel
    \/ PrintResults
    \/ BuildFlowsheet
    \/ FixInput
    \/ UnfixInput
    \/ AddObjective
    \/ AddConstraint
    \/ SolveStats
    \/ StatusNone
    \/ SolveOpt
    \/ AssertH2
    \/ AssertN2
    \/ CreateDae
    \/ PetscChem
    \/ AssertRelError
    \/ PlotModel
    \/ PlotTrajectory
    \/ Interpolate
    \/ CreateModel
    \/ DeclareTimeVar
    \/ FixPressure
    \/ SetPressure
    \/ UnfixPressure
    \/ FixTimeVar
    \/ DeclarePressureEqn
    \/ DeactivateEqn
    \/ ActivateEqn
    \/ PetscPid
    \/ PlotTj
    \/ Configure
    \/ CreateTxyModel
    \/ AttachParams
    \/ TxyDiagram

Spec == Init /\ [][Next]_vars

(***************************************************************************)
(* Positions in the run, by source line of the statement.                  *)
(***************************************************************************)
\* Index in the statement table of the statement at source line l.
Idx(l) == CHOOSE i \in 1..Len(Prog) : Prog[i].line = l

\* The statement at line l has been executed and did not raise.
Done(l) == pc > Idx(l)

\* The statement at line l is the next one to run.
At(l) == ~raised /\ pc = Idx(l)

\* Number of fix statements on block b among the statements executed so far.
FixesDone(b) ==
    Cardinality({i \in 1..(pc - 1) : Prog[i].op = "fix" /\ Prog[i].blk = b})

(***************************************************************************)
(* Claims about the pump notebook.                                         *)
(***************************************************************************)

\* C1: Case 1 - the degrees of freedom of the model m are 5 right after the
\* Pump unit is attached and 0 after inlet flow_mol, enth_mol, pressure, deltaP
\* and efficiency_pump are fixed; each fix executed lowers the count by exactly
\* one (the count is 5 minus the number of fixes executed) and it is never
\* negative; the values read into DOF_initial and DOF_final are 5 and 0.
C1_DegreesOfFreedomCase1 ==
    (nb = "pump" /\ Done(136) /\ ~Done(316)) =>
        LET d == degrees_of_freedom("m")
        IN  /\ d >= 0
            /\ d = 5 - FixesDone("pump_case_1")
            /\ (pc = Idx(150) => d = 5)
            /\ (Done(205) => d = 0)
            /\ (Done(150) => pump.DOF_initial = <<5>>)
            /\ (Done(208) => pump.DOF_final = <<0>>)

\* C1 witness: the five fixes of case 1 have run, the count read is 0 and the
\* assertion on it has passed.
C1_Witness ==
    /\ nb = "pump" /\ At(239)
    /\ pump.fixed["pump_case_1"] =
           {"inlet.flow_mol", "inlet.enth_mol", "inlet.pressure", "deltaP",
            "efficiency_pump"}
    /\ degrees_of_freedom("m") = 0
    /\ pump.DOF_final = <<0>>

\* C2: Case 2 - the degrees of freedom counted on m.fs.pump_case_2 alone are 5
\* when the second pump is attached, although pump_case_1 on the same flowsheet
\* is fully fixed, and 0 after inlet flow_mol, enth_mol, pressure, outlet
\* pressure and efficiency_pump are fixed; fixing the outlet pressure (instead
\* of deltaP) removes exactly one degree of freedom.
C2_DegreesOfFreedomCase2 ==
    (nb = "pump" /\ Done(341)) =>
        LET d == degrees_of_freedom("pump_case_2")
        IN  /\ d = 5 - FixesDone("pump_case_2")
            /\ degrees_of_freedom("pump_case_1") = 0
            /\ (pc = Idx(344) => d = 5)
            /\ (pc = Idx(398) => d = 2 /\ "outlet.pressure" \notin pump.fixed["pump_case_2"])
            /\ (pc = Idx(401) => d = 1 /\ "outlet.pressure" \in pump.fixed["pump_case_2"])
            /\ "deltaP" \notin pump.fixed["pump_case_2"]
            /\ (Done(401) => d = 0)
            /\ (Done(344) => pump.DOF_initial = <<5>>)
            /\ (Done(410) => pump.DOF_final = <<0>>)

\* C2 witness: case 2 is fully specified through the outlet pressure and its
\* count is 0 while both pumps are on the flowsheet.
C2_Witness ==
    /\ nb = "pump" /\ At(441)
    /\ pump.attached = PumpBlocks
    /\ "outlet.pressure" \in pump.fixed["pump_case_2"]
    /\ degrees_of_freedom("pump_case_2") = 0
    /\ pump.DOF_final = <<0>>

\* C3: after each of the two solves, a run that gets past the assertion cell
\* has termination condition optimal and solver status ok; a solve that ended
\* otherwise makes the assertion cell raise, so the report and result-checking
\* cells only ever run on a model whose last solve converged.
C3_StatusAsserted ==
    (nb = "pump" /\ Done(258)) =>
        /\ pump.solve_status # Undef
        /\ (pc \notin {Idx(278), Idx(281), Idx(473), Idx(476)} =>
               Converged(pump.solve_status))
        /\ (pc \in {Idx(281), Idx(476)} /\ raised => ~Converged(pump.solve_status))
        /\ (pc \in {Idx(299), Idx(315), Idx(316), Idx(494), Idx(508), Idx(509)}
               => Converged(pump.solve_status))

\* C3 witness: the case 2 solve did not converge and the assertion cell after
\* it raised.
C3_Witness ==
    /\ nb = "pump" /\ pc = Idx(476) /\ raised
    /\ pump.solve_status.termination_condition = "infeasible"

\* C4: Case 1 - with the inlet pressure fixed at 101325 Pa and deltaP fixed at
\* 100000 Pa, the outlet pressure of a converged solve equals inlet pressure
\* plus deltaP up to the solver residual, and so is within 1e-2 Pa of 201325.
C4_OutletPressureCase1 ==
    (nb = "pump" /\ Done(281)) =>
        LET v == pump.val["pump_case_1"]
        IN  /\ v["inlet.pressure"] = 101325000
            /\ v["deltaP"] = 100000000
            /\ Abs(v["outlet.pressure"] - (v["inlet.pressure"] + v["deltaP"]))
                   <= MaxResidual
            /\ ApproxAbs(v["outlet.pressure"], 201325000, 10)

\* C4 witness: case 1 solved with a nonzero residual on the pressure balance.
C4_Witness ==
    /\ nb = "pump" /\ At(315)
    /\ pump.val["pump_case_1"]["outlet.pressure"] = 201325001

\* C5: Case 1 and Case 2 describe the same operating point: after the case 2
\* solve converged its deltaP is within 1e-2 Pa of 100000, its outlet pressure
\* and mechanical work agree with those of case 1 up to the solver residuals,
\* and a run that passes both result checks has both works within 1e-2 of
\* 225.85.
C5_SameOperatingPoint ==
    (nb = "pump" /\ Done(476)) =>
        LET v1 == pump.val["pump_case_1"]
            v2 == pump.val["pump_case_2"]
        IN  /\ ApproxAbs(v2["deltaP"], 100000000, 10)
            /\ Abs(v2["deltaP"] - v1["deltaP"]) <= MaxResidual
            /\ Abs(v2["outlet.pressure"] - v1["outlet.pressure"]) <= MaxResidual
            /\ Abs(v2["work_mechanical"] - v1["work_mechanical"])
                   <= 2 * MaxResidual
            /\ v2["inlet.flow_mol"] = v1["inlet.flow_mol"]
            /\ v2["inlet.enth_mol"] = v1["inlet.enth_mol"]
            /\ v2["inlet.pressure"] = v1["inlet.pressure"]
            /\ v2["efficiency_pump"] = v1["efficiency_pump"]
            /\ (Finished =>
                   /\ ApproxAbs(v1["work_mechanical"], 225850, 10)
                   /\ ApproxAbs(v2["work_mechanical"], 225850, 10))

\* C5 witness: the notebook ran to its end, with case 2 solved for deltaP.
C5_Witness ==
    /\ nb = "pump" /\ Finished
    /\ "deltaP" \notin pump.fixed["pump_case_2"]
    /\ pump.val["pump_case_2"]["deltaP"] # 100000000

(***************************************************************************)
(* Claims about the reformer, chemical and PID notebooks.                  *)
(***************************************************************************)
\* Source line of the statement with operation op in the notebook being run.
LineOf(op) == Prog[CHOOSE i \in 1..Len(Prog) : Prog[i].op = op].line

\* C6: in both reformer notebooks, once the optimisation solve (both inputs
\* unfixed, objective maximise H2 on the model, second solve of the run) is
\* behind the assertion on H2, the hydrogen mole fraction is within 0.01 of
\* 0.33.
C6_HydrogenFraction ==
    (Reformer /\ Done(LineOf("assert_H2")) /\ atr.has_alamo # <<FALSE>>) =>
        /\ Abs(atr.val.H2 - 33000000) <= 1000000
        /\ atr.fixed = {}
        /\ atr.obj
        /\ atr.solves = 2

\* C6 witness: the assertion passed with H2 at the edge of the tolerance.
C6_Witness ==
    /\ nb = "alamo" /\ Done(1371) /\ atr.has_alamo = <<TRUE>>
    /\ atr.val.H2 = 34000000

\* C7 (as claimed): the check on N2 after the solve enforces the limit of the
\* optimisation constraint, 0.34: no run gets past the check with N2 above
\* 0.34 (beyond the solver's constraint tolerance).
C7_CheckEnforcesLimit ==
    (Reformer /\ Done(LineOf("assert_N2")) /\ atr.has_alamo # <<FALSE>>) =>
        atr.val.N2 <= N2Limit + ConstraintTol

\* C8: once the six verification assertions are passed, each of m.y[180, 1..5]
\* and m.y6[180] differs from its reference value by a relative error strictly
\* below 1e-3; after the i-th assertion this holds of the first i values.
C8_RelativeError ==
    (nb = "chem" /\ Done(177)) =>
        /\ chem.integrated
        /\ \A i \in Species :
              pc > Idx(176 + i) =>
                  Abs(RefValue - chem.y180[i]) * 1000 < RefValue

\* C8 witness: all six assertions passed, one value off by 999 parts in 1e6.
C8_Witness ==
    /\ nb = "chem" /\ Finished
    /\ chem.y180[6] = 999001

\* C9: the 100 sampled rows are split 80/20: data_training has 80 rows,
\* data_validation 20, the two are disjoint and together they are exactly the
\* sampled rows; the seed passed to the split is the number of sampled rows, 100.
C9_TrainingValidationSplit ==
    (Reformer /\ Done(LineOf("split"))) =>
        /\ Len(atr.data) = 100
        /\ Cardinality(Range(atr.data)) = 100
        /\ Len(atr.data_training) = 80
        /\ Len(atr.data_validation) = 20
        /\ Cardinality(Range(atr.data_training)) = 80
        /\ Cardinality(Range(atr.data_validation)) = 20
        /\ Range(atr.data_training) \cap Range(atr.data_validation) = {}
        /\ Range(atr.data_training) \cup Range(atr.data_validation)
               = Range(atr.data)
        /\ atr.n_data = <<100>>
        /\ atr.seed = <<100>>

\* C9 witness: a split whose shuffle moved rows, so that the training set is
\* not simply the first 80 sampled rows.
C9_Witness ==
    /\ nb = "pysmo" /\ Done(579)
    /\ Len(atr.data_training) = 80
    /\ atr.data_training # SubSeq(atr.data, 1, 80)

\* C10: three-part ramp model (time set {0, 10, 12, 24}): when the solve
\* starts, at every time point exactly one of the two holds: the valve_1 inlet
\* pressure is fixed, or inlet_pressure_eqn is active.  At 12 the pressure is
\* unfixed and the constraint active; at 0, 10 and 24 the pressure is fixed
\* (500000, 500000, 600000) and the constraint deactivated.
C10_FixedOrConstrained ==
    (nb = "pid" /\ pc >= Idx(330)) =>
        /\ TimePoints = {0, 10, 12, 24}
        /\ \A t \in TimePoints : (t \in pid.p_fixed) # (t \in pid.eqn_active)
        /\ 12 \notin pid.p_fixed /\ 12 \in pid.eqn_active
        /\ \A t \in {0, 10, 24} : t \in pid.p_fixed /\ t \notin pid.eqn_active
        /\ pid.p_val[0] = 500000 /\ pid.p_val[10] = 500000
        /\ pid.p_val[24] = 600000

\* C10 witness: the third solve is about to start, with the linear constraint
\* active at 12 only and the pressure fixed everywhere else.
C10_Witness ==
    /\ nb = "pid" /\ At(330)
    /\ pid.scenario = 3
    /\ pid.eqn = "linear"
    /\ pid.eqn_active = {12}
    /\ pid.p_fixed = {0, 10, 24}

\* Times (s) on either side of zero over which the ramp function is examined.
MaxTime == 30

\* C11: single-element ramp model, min and max taken exactly: the inlet
\* pressure prescribed by inlet_pressure_eqn is 500000 Pa at every time up to
\* 10 s, rises linearly from 10 s to 12 s, is 600000 Pa from 12 s on, never
\* decreases with time and stays within [500000, 600000]; this holds of the
\* function at every time examined and of the trajectory the solve returns.
C11_InletPressureRamp ==
    (nb = "pid" /\ Done(224)) =>
        LET tj == pid.traj[2]
            Shape(k, p) ==
                /\ (k <= 100 => p = 500000)
                /\ (k >= 120 => p = 600000)
                /\ ((k >= 100 /\ k <= 120) => p = 500000 + 5000 * (k - 100))
                /\ p >= 500000 /\ p <= 600000
        IN  /\ DOMAIN tj = 0..240
            /\ \A k \in DOMAIN tj : Shape(k, tj[k])
            /\ \A k \in 1..240 : tj[k - 1] <= tj[k]
            /\ \A k \in (-MaxTime * TicksPerSecond)..(MaxTime * TicksPerSecond) :
                  /\ Shape(k, smooth_ramp_pressure(k))
                  /\ smooth_ramp_pressure(k) <= smooth_ramp_pressure(k + 1)

\* C11 witness: the single-element ramp model was integrated and its
\* trajectory is half way up the ramp at 11 s.
C11_Witness ==
    /\ nb = "pid" /\ Done(224)
    /\ pid.eqn = "smooth ramp"
    /\ pid.traj[2][110] = 550000
    /\ pid.traj[2][0] = 500000
    /\ pid.traj[2][240] = 600000

\* C12: the three-part formulation prescribes, at every time in [0, 24], the
\* inlet pressure the single-element formulation prescribes, and the value
\* 600000 set at t = 12 before the solve satisfies the linear constraint at
\* time 12.
C12_ThreePartRepeatsRamp ==
    /\ (nb = "pid" /\ pc >= Idx(330)) =>
          /\ pid.p_val[12] = 600000
          /\ pid.p_val[12] = linear_pressure(12 * TicksPerSecond)
    /\ (nb = "pid" /\ Done(330)) =>
          /\ Len(pid.traj) = 3
          /\ DOMAIN pid.traj[3] = 0..240
          /\ DOMAIN pid.traj[2] = 0..240
          /\ \A k \in 0..240 : pid.traj[3][k] = pid.traj[2][k]

\* C12 witness: all three models were integrated; the third one, in three
\* elements with the linear constraint on the second, is on the ramp at 11 s.
C12_Witness ==
    /\ nb = "pid" /\ Finished
    /\ pid.nfe = 3
    /\ pid.eqn = "linear" /\ pid.eqn_active = {12}
    /\ pid.traj[3][110] = 550000

(***************************************************************************)
(* Claims about output capture, the ALAMO fallback and the surrogate file.  *)
(***************************************************************************)
\* Cells that redirect sys.stdout: the line of the redirect and the line of
\* the cell's last statement.
CaptureCells ==
    IF nb = "pysmo" THEN {<<614, 644>>, <<783, 797>>}
    ELSE IF nb = "alamo" THEN {<<1103, 1155>>}
    ELSE {}

\* The run is inside capture cell c: past its redirect, its last statement
\* still to run, nothing raised.
InCell(c) == ~raised /\ pc > Idx(c[1]) /\ pc <= Idx(c[2])

\* C13 (as claimed): every cell that redirects sys.stdout puts the original
\* stream back before it ends, on every path, the ALAMO-not-found path and
\* the path where training or loading raises included: whenever the run is not
\* in the middle of such a cell, sys.stdout is the original stream.
C13_StdoutRestored ==
    (Reformer /\ \A c \in CaptureCells : ~InCell(c)) => atr.stdout = "original"

\* C14: ALAMO notebook.  A FileNotFoundError whose text contains 'Could not
\* find ALAMO' gives has_alamo = False and status_obj = None, every later
\* step is skipped and the run never raises; any other exception of the
\* training propagates; with no exception has_alamo is True and every step
\* runs (only the two result assertions can still stop the run).
C14_AlamoFallback ==
    nb = "alamo" =>
        /\ atr.has_alamo = <<FALSE>> =>
              /\ ~raised
              /\ atr.err # Undef
              /\ atr.err[1].type = "FileNotFoundError"
              /\ InText("Could not find ALAMO", atr.err[1])
              /\ (Done(1302) => atr.status_obj = <<NoneStatus>>)
              /\ atr.file = Undef /\ atr.surr = Undef /\ atr.surrogate = Undef
              /\ atr.plotted = << >> /\ ~atr.built /\ atr.solves = 0
              /\ ~atr.obj /\ ~atr.con /\ atr.console = << >>
        /\ (/\ atr.err # Undef
            /\ ~(/\ atr.err[1].type = "FileNotFoundError"
                 /\ InText("Could not find ALAMO", atr.err[1]))) =>
              /\ raised /\ pc = Idx(1125)
              /\ atr.has_alamo = <<TRUE>>
        /\ (Done(1125) /\ atr.err = Undef) =>
              /\ atr.has_alamo = <<TRUE>>
              /\ (raised => pc \in {Idx(1371), Idx(1372)})
              /\ (Done(1135) => atr.file # Undef)
              /\ (Done(1211) => Len(atr.plotted) = 2)
              /\ (Done(1245) => atr.built)
              /\ (Done(1293) => atr.neqs = 13)
              /\ (Done(1300) => atr.solves >= 1 /\ atr.status_obj # <<NoneStatus>>)
              /\ (Done(1302) => atr.status_obj # <<NoneStatus>>)
              /\ (Done(1319) =>
                     \E i \in DOMAIN atr.console :
                        atr.console[i] = Message("Model status: "))
              /\ (Done(1367) => atr.solves = 2 /\ atr.obj /\ atr.con)

\* C14 witness: ALAMO was not found and the notebook ran to its end.
C14_Witness ==
    /\ nb = "alamo" /\ Finished
    /\ atr.has_alamo = <<FALSE>>
    /\ atr.status_obj = <<NoneStatus>>

\* C15 (as claimed): the surrogate loaded from the JSON file in the flowsheet
\* step has the input labels, output labels and input bounds of the surrogate
\* object that was passed to the plotting functions.
C15_LoadedIsPlotted ==
    (Reformer /\ atr.surrogate # Undef) =>
        /\ Len(atr.plotted) = 2
        /\ \A i \in DOMAIN atr.plotted :
              /\ atr.surrogate[1].input_labels = atr.plotted[i].input_labels
              /\ atr.surrogate[1].output_labels = atr.plotted[i].output_labels
              /\ atr.surrogate[1].input_bounds = atr.plotted[i].input_bounds

\* C18: the first solve finds both inputs fixed (0.5 and 1), no objective and
\* no constraint, and a square problem, 13 unfixed variables and 13 surrogate
\* equations; the second finds both inputs unfixed and the objective and the
\* constraint present; the result assertions come after the second solve.
C18_SolveOrder ==
    (Reformer /\ atr.has_alamo # <<FALSE>>) =>
        /\ Len(atr.solve_log) = atr.solves
        /\ atr.solves <= 2
        /\ atr.solves >= 1 =>
              LET s1 == atr.solve_log[1]
              IN  /\ s1.fixed = {"bypass_frac", "ng_steam_ratio"}
                  /\ s1.bypass_frac = 50 /\ s1.ng_steam_ratio = 100
                  /\ ~s1.obj /\ ~s1.con
                  /\ s1.nvars = 13 /\ s1.neqs = 13
        /\ atr.solves = 2 =>
              LET s2 == atr.solve_log[2]
              IN  /\ s2.fixed = {}
                  /\ s2.obj /\ s2.con
                  /\ s2.nvars = 15 /\ s2.neqs = 13
                  /\ pc > Idx(LineOf("solve_opt"))
        /\ pc >= Idx(LineOf("assert_H2")) => atr.solves = 2
        /\ pc <= Idx(LineOf("solve_stats")) => atr.solves = 0

\* C18 witness: a PySMO run went through both solves and both assertions.
C18_Witness ==
    /\ nb = "pysmo" /\ Finished
    /\ Len(atr.solve_log) = 2
    /\ atr.solve_log[1].fixed = {"bypass_frac", "ng_steam_ratio"}
    /\ atr.solve_log[2].fixed = {}

\* C19 (as claimed): when ALAMO is not installed, the message 'ALAMO not
\* found. You must install ALAMO to use this notebook' is written to the
\* original standard output.
C19_MessageOnOriginalStdout ==
    (nb = "alamo" /\ atr.has_alamo = <<FALSE>>) =>
        \E i \in DOMAIN atr.console : atr.console[i] = AlamoNotFoundMessage

\* C20 (as claimed): the training cell shows the first 50 and the last 50
\* lines of the captured output around three lines '.'; each line of the
\* captured output is shown at most once, and what is shown before and after
\* the separator are disjoint parts of the output.
C20_DisplayedOnce ==
    (Reformer /\ Done(LineOf("display")) /\ atr.has_alamo # <<FALSE>>) =>
        LET co == atr.celloutput
            shown == atr.console
            sep == CHOOSE j \in DOMAIN shown : shown[j] = Separator
        IN  /\ \A i \in DOMAIN co :
                  Cardinality({j \in DOMAIN shown : shown[j] = co[i]}) <= 1
            /\ Range(SubSeq(shown, 1, sep - 1))
                  \cap Range(SubSeq(shown, sep + 3, Len(shown))) = {}
            /\ shown[sep + 1] = Separator /\ shown[sep + 2] = Separator

(***************************************************************************)
(* Claims about the trajectory of the chemical Akzo Nobel notebook.        *)
(***************************************************************************)
\* What C16 says of the state once tji exists.
C16_Interpolated ==
    (nb = "chem" /\ Done(281)) =>
        LET tj == chem.tj[1]
            tji == chem.tji[1]
        IN  /\ Len(tji.time) = 181 /\ Len(tji.vec) = 181
            /\ \A i \in 1..181 : tji.time[i] = (i - 1) * TimeScale
            /\ \A i \in 1..181 :
                  \E j \in 1..(Len(tj.time) - 1) :
                     /\ tj.time[j] <= tji.time[i]
                     /\ tji.time[i] <= tj.time[j + 1]
                     /\ tji.vec[i] =
                           OnLine(tj.time[j], tj.vec[j], tj.time[j + 1],
                                  tj.vec[j + 1], tji.time[i])
                     /\ tji.vec[i] >= Min(tj.vec[j], tj.vec[j + 1])
                     /\ tji.vec[i] <= Max(tj.vec[j], tj.vec[j + 1])
            /\ tji.vec[1] = tj.vec[1]
            /\ tji.vec[181] = tj.vec[Len(tj.vec)]
            /\ (Done(311) =>
                   chem.plotted[Len(chem.plotted)] = [name |-> "tj", data |-> tj])

\* C16: tj.interpolate(np.linspace(0, 180, 181)) gives a new trajectory whose
\* times are exactly 0, 1, ..., 180 min, each value lying on the straight line
\* between the two neighbouring points of the original trajectory, and the
\* original trajectory tj, plotted afterwards as 'original', is never changed
\* once the solve returned it.
C16_InterpolateTrajectory ==
    /\ []C16_Interpolated
    /\ [][(nb = "chem" /\ chem.tj # Undef) => chem'.tj = chem.tj]_vars

\* C16 witness: the notebook ran to its end; tji holds a value strictly
\* between two points of a trajectory with unequal steps.
C16_Witness ==
    /\ nb = "chem" /\ Finished
    /\ chem.tj[1].time = <<0, 1, 150, 9000, 18000>>
    /\ chem.tji[1].time[2] = 100
    /\ chem.tji[1].vec[2] < chem.tj[1].vec[2]
    /\ chem.tji[1].vec[2] > chem.tj[1].vec[3]

\* C17: with 10 finite elements and between = [first, last] the solve
\* integrates one time element from the first to the last time point, and
\* afterwards every point of m.t, the nine skipped ones included, holds the
\* value interpolated from the trajectory, so the values can be read at every
\* t in m.t.
C17_SkippedPointsFilled ==
    (nb = "chem" /\ Done(155)) =>
        /\ chem.nfe = 10
        /\ Len(chem.t) = 11
        /\ \A i \in 1..11 : chem.t[i] = (i - 1) * 18 * TimeScale
        /\ chem.between = <<chem.t[1], chem.t[11]>>
        /\ chem.elements = 1
        /\ chem.filled = Range(chem.t)
        /\ \A i \in 1..11 : chem.yt[chem.t[i]] = interp(chem.tj[1], chem.t[i])
        /\ chem.yt[chem.t[11]] = chem.y180[TrackedSpecies]
        /\ (pc = Idx(200) => ~raised)

\* C17 witness: the plot of the values stored in the model was drawn, with a
\* skipped point holding a value that is neither the initial nor the final one.
C17_Witness ==
    /\ nb = "chem" /\ Done(200)
    /\ chem.yt[9000] # InitialValue
    /\ chem.yt[9000] # chem.y180[TrackedSpecies]
    /\ chem.yt[9000] = 1005000

(***************************************************************************)
(* Claims about the use of trajectories in the PETSc notebooks.            *)
(***************************************************************************)
\* C21: in the PETSc notebooks the trajectory is read only after a solve that
\* completed with "--ts_save_trajectory": 1 among its options, and every plot
\* of a trajectory draws the one returned by the latest solve of the model
\* bound to m at the time of the plot.
C21_TrajectoryOfLatestSolve ==
    /\ (nb = "pid" =>
           \A i \in DOMAIN pid.plots :
              LET p == pid.plots[i]
              IN  /\ p.solves >= 1
                  /\ ~p.tj.none
                  /\ SavesTrajectory(p.tj.options)
                  /\ p.tj.model = p.model
                  /\ p.tj.solve = p.solves
                  /\ p.model = p.solves)
    /\ (nb = "chem" /\ (chem.plotted # << >> \/ chem.tji # Undef) =>
           /\ chem.integrated
           /\ SavesTrajectory(chem.ts_options)
           /\ \A i \in DOMAIN chem.plotted :
                 chem.plotted[i].data = chem[chem.plotted[i].name][1])

\* C21 witness: the PID notebook ran to its end with eight plots drawn, the
\* last from the third solve of the third model.
C21_Witness ==
    /\ nb = "pid" /\ Finished
    /\ Len(pid.plots) = 8
    /\ pid.plots[8].tj.solve = 3
    /\ pid.plots[8].model = 3

(***************************************************************************)
(* Claims about the variables of the reformer flowsheet.                   *)
(***************************************************************************)
\* C22: the list `outputs` given to build_model names the 13 output variables
\* in the documented order, which is the order of their declarations and of
\* the prints, so that every surrogate output is bound to the variable of its
\* own quantity.
C22_OutputsInDocumentedOrder ==
    (Reformer /\ atr.bound # << >>) =>
        /\ Len(atr.bound) = 13
        /\ outputs = DeclaredOutputs
        /\ outputs = PrintedOutputs
        /\ \A i \in DOMAIN atr.bound :
              VarOfLabel(atr.bound[i].label) = atr.bound[i].var

\* C23: the bounds of the two flowsheet input variables are the input bounds
\* given to the surrogate, bypass_frac in [0.1, 0.8] and ng_steam_ratio in
\* [0.8, 1.2], and the value an input is initialised to or fixed at is always
\* within them.
C23_InputsWithinBounds ==
    (Reformer /\ atr.built) =>
        /\ atr.bounds.bypass_frac = <<10, 80>>
        /\ atr.bounds.ng_steam_ratio = <<80, 120>>
        /\ \A i \in DOMAIN inputs :
              LET b == atr.bounds[inputs[i]]
              IN  /\ b = input_bounds[input_labels[i]]
                  /\ b = atr.surr[1].input_bounds[input_labels[i]]
                  /\ b[1] <= atr.val[inputs[i]]
                  /\ atr.val[inputs[i]] <= b[2]

\* C23 witness: both inputs fixed, at 0.5 and 1, on a built flowsheet.
C23_Witness ==
    /\ Reformer /\ atr.built
    /\ atr.fixed = {"bypass_frac", "ng_steam_ratio"}
    /\ atr.val.bypass_frac = 50
    /\ atr.val.ng_steam_ratio = 100

(***************************************************************************)
(* Claims about the time sets of the PID notebook.                         *)
(***************************************************************************)
\* Statements that index a variable, a constraint or a trajectory by time.
IndexOps ==
    {"fix_pressure", "set_pressure", "unfix_pressure", "fix_time_var",
     "activate_eqn", "plot_tj"}

\* C24: each of the three scenarios starts from a newly created model whose
\* number of finite elements is the number of intervals of its time set (1, 1
\* and 3); every time index used afterwards to fix, unfix, activate or read is
\* a member of the time set of the model then bound to m, and trajectories are
\* read through the variable at the last time point.
C24_TimeIndicesInTimeSet ==
    (nb = "pid" /\ pid.scenario > 0) =>
        /\ pid.nfe = Len(pid.time_set) - 1
        /\ pid.time_set = CASE pid.scenario = 1 -> <<0, 12>>
                            [] pid.scenario = 2 -> <<0, 24>>
                            [] OTHER -> <<0, 10, 12, 24>>
        /\ pid.nfe = (IF pid.scenario = 3 THEN 3 ELSE 1)
        /\ pid.solves \in {pid.scenario - 1, pid.scenario}
        /\ (pc > 1 /\ Prog[pc - 1].op = "create_model" =>
               /\ ~pid.time_var /\ pid.tv_fixed = {}
               /\ pid.eqn = "none" /\ pid.eqn_active = {}
               /\ pid.solves = pid.scenario - 1)
        /\ (pc <= Len(Prog) /\ Cur.op \in IndexOps => Cur.var \in TimePoints)
        /\ (pc <= Len(Prog) /\ Cur.op = "plot_tj" =>
               Cur.var = pid.time_set[Len(pid.time_set)])
        /\ \A i \in DOMAIN pid.plots :
              pid.plots[i].model = pid.scenario =>
                  pid.plots[i].index = pid.time_set[Len(pid.time_set)]
        /\ (raised => Cur.op = "petsc_pid")

\* C24 witness: the third scenario, with its four time points, ran to the end
\* and its plots were drawn through the variable at 24.
C24_Witness ==
    /\ nb = "pid" /\ Finished
    /\ pid.scenario = 3 /\ pid.nfe = 3
    /\ pid.p_fixed = {0, 10, 24}
    /\ pid.plots[Len(pid.plots)].index = 24

\* C25: when a solve with the explicit time variable starts, time_var at the
\* first time point is fixed to the first time of the time set or its
\* constraint there is not active, and time_var is fixed at no later point.
C25_InitialTimeFixedOrUnused ==
    (nb = "pid" /\ pc <= Len(Prog) /\ Cur.op = "petsc_pid" /\ pid.time_var) =>
        LET t0 == pid.time_set[1]
        IN  /\ \/ t0 \in pid.tv_fixed /\ pid.tv_val[t0] = <<t0>>
               \/ ~EqnActive(t0)
            /\ pid.tv_fixed \subseteq {t0}

\* C25 witness: the third solve is about to start with time_var declared and
\* not fixed anywhere, the constraint active at 12 only.
C25_Witness ==
    /\ nb = "pid" /\ At(330)
    /\ pid.time_var /\ pid.tv_fixed = {}
    /\ pid.eqn_active = {12}
    /\ pid.solves = 2

(***************************************************************************)
(* Claims about the cells of the pump notebook.                            *)
(***************************************************************************)
\* What C26 says of a state: the scope of each solve, and the results of case
\* 1 once they have been checked.
C26_Case1Kept ==
    nb = "pump" =>
        /\ (At(258) => Cur.blk = "m" /\ Scope(Cur.blk) = {"pump_case_1"})
        /\ (At(460) => /\ Cur.blk = "pump_case_2"
                       /\ Scope(Cur.blk) = {"pump_case_2"}
                       /\ pump.attached = {"pump_case_1", "pump_case_2"})
        /\ (Done(316) =>
               LET v == pump.val["pump_case_1"]
               IN  /\ ApproxAbs(v["outlet.pressure"], ExpectedOutletPressure,
                                CheckTol)
                   /\ ApproxAbs(v["work_mechanical"], ExpectedWork, CheckTol)
                   /\ pump.fixed["pump_case_1"] =
                          {"inlet.flow_mol", "inlet.enth_mol", "inlet.pressure",
                           "deltaP", "efficiency_pump"})

\* C26: the case 1 solve is given the whole model while pump_case_1 is the
\* only unit on it, the case 2 solve is given the block pump_case_2 alone, and
\* no step after the case 1 checks changes a value or a fixed flag of
\* pump_case_1, so the checked case 1 results hold to the end of the notebook.
C26_Case2SolveLeavesCase1 ==
    /\ []C26_Case1Kept
    /\ [][(nb = "pump" /\ Done(316)) =>
             /\ pump'.val["pump_case_1"] = pump.val["pump_case_1"]
             /\ pump'.fixed["pump_case_1"] = pump.fixed["pump_case_1"]]_vars

\* C26 witness: the notebook ran to its end with the two cases solved to
\* different residuals.
C26_Witness ==
    /\ nb = "pump" /\ Finished
    /\ pump.val["pump_case_1"]["outlet.pressure"] = ExpectedOutletPressure + 1
    /\ pump.val["pump_case_2"]["deltaP"] = ExpectedDeltaP - 1

\* Names imported in testing cells only.
TestingOnlyNames == {"pytest", "TerminationCondition", "SolverStatus"}

\* C27: run once from top to bottom, every name a statement of the pump
\* notebook reads has been bound by an earlier statement, in the notebook as it
\* stands and in the notebook without its testing cells; in the latter the
\* names imported in testing cells only are never bound and never read.
C27_NamesDefinedBeforeUse ==
    (nb \in PumpNotebooks) =>
        /\ (pc <= Len(Prog) => Uses(Cur) \subseteq pump.names)
        /\ (raised => Cur.op \in {"assert_dof", "assert_status", "check",
                                  "initialize"})
        /\ (nb = "pump_doc" =>
               /\ pump.names \cap TestingOnlyNames = {}
               /\ \A i \in DOMAIN Prog :
                     /\ Prog[i].line \notin TestingLines
                     /\ Uses(Prog[i]) \cap TestingOnlyNames = {})
        /\ (nb = "pump" /\ pc <= Len(Prog)
                /\ Uses(Cur) \cap TestingOnlyNames # {} =>
               Cur.line \in TestingLines)

\* C27 witness: the notebook without its testing cells ran to its end.
C27_Witness ==
    /\ nb = "pump_doc" /\ Finished
    /\ pump.names = {"ConcreteModel", "SolverFactory", "value", "units",
                     "FlowsheetBlock", "idaeslog", "m", "iapws95", "PhaseType",
                     "Pump", "degrees_of_freedom", "DOF_initial", "DOF_final",
                     "opt", "solve_status"}

(***************************************************************************)
(* Claims about the property configuration of the Txy notebook.            *)
(***************************************************************************)
\* a <= x <= b
Within(x, a, b) == a <= x /\ x <= b

\* C28: in the configuration every state bound triple is ordered lower <=
\* initial <= upper, the reference pressure and temperature lie within their
\* bounds, the pressure and temperature given to Txy_diagram lie within the
\* pressure and temperature bounds, and every phase named in
\* phases_in_equilibrium, phase_equilibrium_state and the components'
\* phase_equilibrium_form is declared under phases.
C28_ConfigurationConsistent ==
    (nb = "txy" /\ txy.configuration # Undef) =>
        LET c == txy.configuration[1]
            sb == c.state_bounds
            pairs == Range(c.phases_in_equilibrium)
                         \cup c.phase_equilibrium_state
                         \cup UNION {c.components[j].phase_equilibrium_form :
                                        j \in DOMAIN c.components}
        IN  /\ sb.flow_mol = <<0, 100, 1000>>
            /\ sb.temperature = <<15000, 30000, 45000>>
            /\ sb.pressure = <<50000, 100000, 1000000>>
            /\ \A k \in DOMAIN sb : sb[k][1] <= sb[k][2] /\ sb[k][2] <= sb[k][3]
            /\ Within(c.pressure_ref, sb.pressure[1], sb.pressure[3])
            /\ Within(c.temperature_ref, sb.temperature[1], sb.temperature[3])
            /\ pairs # {}
            /\ \A pr \in pairs : pr[1] \in c.phases /\ pr[2] \in c.phases
            /\ (txy.diagram # Undef =>
                   /\ txy.params = txy.configuration
                   /\ txy.diagram[1].pressure = 101325
                   /\ txy.diagram[1].temperature = 15015
                   /\ Within(txy.diagram[1].pressure,
                             sb.pressure[1], sb.pressure[3])
                   /\ Within(txy.diagram[1].temperature,
                             sb.temperature[1], sb.temperature[3]))

\* C28 witness: the diagram was drawn, all its points solved, at 101325 Pa
\* from 150.15 K with the parameter block built from the configuration.
C28_Witness ==
    /\ nb = "txy" /\ Finished
    /\ txy.drawn = 25
    /\ txy.diagram[1].temperature = 15015
    /\ txy.params[1].state_bounds.temperature[1] = 15000

=============================================================================
